---- MODULE Spec2Model ----
(***************************************************************************)
(* State-machine model of src/src/env.py: the grid game environments       *)
(* FourRoomEnv, ImposterTrainingGround and FourRoomEnvWithTagging.         *)
(*                                                                         *)
(* Agents and jobs are numbered from 0 as in the source; per-agent and     *)
(* per-job arrays are functions over 0..n-1.  A cell is <<x, y>>.          *)
(* One call of step is the action sequence StepBegin, AgentAct (once per   *)
(* entry of agent_action_order), StepEnd; pc = "acting" holds while the    *)
(* for-loop of step runs and no other handler can run in between.  The     *)
(* action vector is an input that does not depend on the state, so the     *)
(* entry of an agent is drawn when its turn comes.                         *)
(***************************************************************************)
EXTENDS Integers, Sequences, FiniteSets, TLC

VARIABLES
    variant,                 \* which class was constructed
    n_imposters, n_crew, n_jobs,
    is_action_order_random, shuffle_imposter_index,
    tag_reset_interval,
    caller_actions,          \* the kinds of action the caller of step chooses among
    step_budget,             \* the caller's step-count budget for one episode
    imposter_idxs, imposter_mask, crew_mask, crew_idxs,
    agent_positions, job_positions, alive_agents, completed_jobs,
    agent_action_map,
    tag_counts, used_tag_actions, tag_reset_timer,
    agent_rewards,           \* self.agent_rewards
    agent_action_order,      \* the part of agent_action_order still to run
    total_time_steps,        \* metrics: SusMetrics.TOTAL_TIME_STEPS
    pc,                      \* "new" | "failed" | "constructed" | "ready" | "acting"
    last_act,                \* locals of the loop iteration that ran last
    step_log,                \* kills, fixes, sabotages and tags of this step
    ret,                     \* what the last call returned ("running" inside step)
    args,                    \* the arguments __init__ was called with
    caller_seeds,            \* the seeds the caller of reset chooses among
    seeded_draws,            \* np.random: what reset draws right after seed(s)
    seed_obs,                \* the observation the first reset(seed) returned
    before_step,             \* the episode state when step was called
    index_legal,             \* the index read last lies in 0 .. len(action set) - 1
    query,                   \* a call of _is_valid_position and its result
    tags_made,               \* per agent: successful tags since reset, since the last vote
    first_done               \* the winner of the first step since reset that returned done

config == <<variant, n_imposters, n_crew, n_jobs, is_action_order_random,
            shuffle_imposter_index, tag_reset_interval, caller_actions,
            step_budget>>
roles == <<imposter_idxs, imposter_mask, crew_mask, crew_idxs>>
tagging == <<tag_counts, used_tag_actions, tag_reset_timer>>
vars == <<config, roles, agent_positions, job_positions, alive_agents,
          completed_jobs, agent_action_map, tagging, agent_rewards,
          agent_action_order, total_time_steps, pc, last_act, step_log, ret,
          args, caller_seeds, seeded_draws, seed_obs, before_step,
          index_legal, query, tags_made, first_done>>

\* what only construction and calls of reset write
seeding == <<args, caller_seeds, seeded_draws, seed_obs, query>>

----------------------------------------------------------------------------
(* Bounds of the model *)

\* steps taken in one episode (between two resets)
MaxSteps == 2
\* number of traversable cells reset draws agent positions from
NumAgentCells == 1
\* number of traversable cells reset draws job positions from
NumJobCells == 2
\* largest job count of a constructed environment
MaxJobs == 2
\* largest tag_reset_interval of a constructed tagging environment
MaxInterval == 2
\* most negative action index a caller passes is -NegIdx
NegIdx == 1
\* largest seed a caller passes to reset
MaxSeed == 1
\* largest agent count of one role passed to __init__
MaxArg == 3
\* coordinates asked about reach this far beyond either edge of the grid
Margin == 2

----------------------------------------------------------------------------
(* Constructor defaults *)

kill_reward == 0 - 5
complete_job_reward == 3
sabotage_reward == 3
time_step_reward == 0
game_end_reward == 10
vote_reward == 3
dead_penalty == IF variant = "ImposterTrainingGround" THEN 0 ELSE 0 - 2

n_rows == 9
n_cols == 9

n_agents == n_imposters + n_crew
Agents == 0 .. (n_agents - 1)
Jobs == 0 .. (n_jobs - 1)

----------------------------------------------------------------------------
(* Actions *)

Act(k) == [kind |-> k, tag |-> 0 - 1]
TagAct(t) == [kind |-> "TAG", tag |-> t]

ActionNames == <<"STAY", "UP", "DOWN", "LEFT", "RIGHT", "KILL", "FIX", "SABOTAGE">>

is_move_action(a) == a.kind \in {"UP", "DOWN", "LEFT", "RIGHT", "STAY"}

move(action, position) ==
    IF action.kind = "UP" THEN <<position[1], position[2] + 1>>
    ELSE IF action.kind = "DOWN" THEN <<position[1], position[2] - 1>>
    ELSE IF action.kind = "LEFT" THEN <<position[1] - 1, position[2]>>
    ELSE IF action.kind = "RIGHT" THEN <<position[1] + 1, position[2]>>
    ELSE position

CREW_ACTIONS ==
    <<Act("STAY"), Act("UP"), Act("DOWN"), Act("LEFT"), Act("RIGHT"), Act("FIX")>>

IMPOSTER_ACTIONS ==
    <<Act("STAY"), Act("UP"), Act("DOWN"), Act("LEFT"), Act("RIGHT"),
      Act("SABOTAGE"), Act("KILL")>>

action_space_n ==
    IF variant = "FourRoomEnvWithTagging"
    THEN Len(ActionNames) + n_agents
    ELSE Len(ActionNames)

----------------------------------------------------------------------------
(* Grid *)

walls ==
    { <<0, 4>>, <<2, 4>>, <<3, 4>>, <<4, 4>>, <<5, 4>>, <<6, 4>>, <<8, 4>>,
      <<4, 0>>, <<4, 2>>, <<4, 3>>, <<4, 5>>, <<4, 6>>, <<4, 8>> }

\* grid[i, j] of the source: all ones, zero at [walls[:,0], walls[:,1]]
grid == [c \in (0 .. 8) \X (0 .. 8) |-> c \notin walls]

RECURSIVE ArgWhere(_, _)
\* np.argwhere(grid) from flat index k on: the true cells in row-major order
ArgWhere(g, k) ==
    IF k >= 81 THEN <<>>
    ELSE LET c == <<k \div 9, k % 9>>
         IN  (IF g[c] THEN <<c>> ELSE <<>>) \o ArgWhere(g, k + 1)

valid_positions == ArgWhere(grid, 0)

\* variant of valid: the test against the upper bound alone
valid_upper_bound_only(pos) == pos[1] < n_cols /\ pos[2] < n_cols

\* the local valid of _is_valid_position: np.all(pos >= 0) and np.all(pos < n_cols)
valid(pos) == pos[1] >= 0 /\ pos[2] >= 0 /\ pos[1] < n_cols /\ pos[2] < n_cols

\* an index numpy accepts on an axis of length n; any other raises IndexError
IndexInRange(i, n) == i \in (0 - n) .. (n - 1)

\* grid[i, j] as numpy reads it: a negative index counts from the end
grid_item(i, j) == grid[<<i % n_rows, j % n_cols>>]

\* variant of _is_valid_position: the bounds test alone, walls ignored
_is_valid_position_in_bounds(pos) ==
    pos[1] >= 0 /\ pos[2] >= 0 /\ pos[1] < n_cols /\ pos[2] < n_cols

_is_valid_position(pos) ==
    valid(pos) /\ grid_item(pos[2], pos[1])

\* the cells reset samples from in this model: (0, 3), next to a wall and to the
\* edge of the grid, and the cells before it in valid_positions
AgentCells == {valid_positions[k] : k \in (5 - NumAgentCells) .. 4}
JobCells == {valid_positions[k] : k \in (5 - NumJobCells) .. 4}

----------------------------------------------------------------------------
(* Helpers on arrays *)

Range(s) == {s[k] : k \in DOMAIN s}

\* np.sum over a boolean array restricted to the indices in S
Count(f, S) == Cardinality({x \in S : f[x]})

Min(S) == CHOOSE x \in S : \A y \in S : x <= y

\* sequences of length n over S without repetition (replace=False)
DistinctSeqs(S, n) ==
    {s \in [1 .. n -> S] : \A a, b \in 1 .. n : a # b => s[a] # s[b]}

\* np.where(mask)[0]: the indices of the true entries, ascending
RECURSIVE Where(_, _, _)
Where(mask, k, n) ==
    IF k >= n THEN <<>>
    ELSE (IF mask[k] THEN <<k>> ELSE <<>>) \o Where(mask, k + 1, n)

NoAct == [agent |-> 0 - 1, action |-> Act("NONE"), alive |-> FALSE,
          victim |-> 0 - 1, job_idx |-> 0 - 1, applied |-> FALSE]

None == 0 - 1

\* no draws, observation, snapshot or query recorded
Nothing == [kind |-> "nothing"]

----------------------------------------------------------------------------
(* Construction *)

CrewCounts == {2}
BooleanFlags == {TRUE, FALSE}

AllActions == Range(ActionNames) \cup {"TAG"}
\* a caller that moves agents only down or not at all
FewMoves == AllActions \ {"UP", "LEFT", "RIGHT"}

\* FourRoomEnv with shuffled action order and roles, or with neither
BaseConfigs ==
    {c \in [variant : {"FourRoomEnv"}, n_imposters : {1}, n_crew : CrewCounts,
            n_jobs : 0 .. MaxJobs, is_action_order_random : BooleanFlags,
            shuffle_imposter_index : BooleanFlags, tag_reset_interval : {0},
            caller_actions : {AllActions}, step_budget : {MaxSteps}] :
        c.is_action_order_random = c.shuffle_imposter_index}

TrainingConfigs ==
    [variant : {"ImposterTrainingGround"}, n_imposters : {1}, n_crew : CrewCounts,
     n_jobs : 0 .. MaxJobs, is_action_order_random : {FALSE},
     shuffle_imposter_index : BooleanFlags, tag_reset_interval : {0},
     caller_actions : {AllActions}, step_budget : {MaxSteps}]

TaggingConfigs ==
    [variant : {"FourRoomEnvWithTagging"}, n_imposters : {1}, n_crew : CrewCounts,
     n_jobs : {1}, is_action_order_random : {TRUE},
     shuffle_imposter_index : {TRUE}, tag_reset_interval : 1 .. MaxInterval,
     caller_actions : {FewMoves}, step_budget : {MaxSteps - 1}]

\* FourRoomEnvWithTagging with a caller that stays, kills and accuses: three
\* agents acting in random order over a budget one step longer, and four
\* agents acting in fixed order for one step
VoteConfigs ==
    [variant : {"FourRoomEnvWithTagging"}, n_imposters : {1}, n_crew : {2},
     n_jobs : {1}, is_action_order_random : {TRUE},
     shuffle_imposter_index : {FALSE}, tag_reset_interval : 1 .. MaxInterval,
     caller_actions : {{"STAY", "KILL", "TAG"}}, step_budget : {MaxSteps + 1}]
    \cup
    [variant : {"FourRoomEnvWithTagging"}, n_imposters : {1}, n_crew : {3},
     n_jobs : {1}, is_action_order_random : {FALSE},
     shuffle_imposter_index : {FALSE}, tag_reset_interval : 1 .. MaxInterval,
     caller_actions : {{"STAY", "KILL", "TAG"}}, step_budget : {MaxSteps - 1}]

\* roles that are not shuffled: FourRoomEnv with one imposter among three
\* agents, and with two among five for a single step, and the tagging
\* extension, where an imposter can be removed by vote
FixedRoleConfigs ==
    [variant : {"FourRoomEnv"}, n_imposters : {1}, n_crew : {2},
     n_jobs : {1}, is_action_order_random : BooleanFlags,
     shuffle_imposter_index : {FALSE}, tag_reset_interval : {0},
     caller_actions : {{"STAY", "KILL", "FIX", "SABOTAGE"}},
     step_budget : {MaxSteps}]
    \cup
    [variant : {"FourRoomEnv"}, n_imposters : {2}, n_crew : {3},
     n_jobs : {1}, is_action_order_random : {FALSE},
     shuffle_imposter_index : {FALSE}, tag_reset_interval : {0},
     caller_actions : {{"STAY", "KILL", "FIX"}}, step_budget : {MaxSteps - 1}]
    \cup
    [variant : {"FourRoomEnvWithTagging"}, n_imposters : {1}, n_crew : {2},
     n_jobs : {1}, is_action_order_random : {FALSE},
     shuffle_imposter_index : {FALSE}, tag_reset_interval : {1},
     caller_actions : {{"STAY", "KILL", "TAG"}}, step_budget : {MaxSteps}]

\* each of the three classes with and without jobs, fixed roles and order, a
\* caller that stays, kills and fixes
ObservationConfigs ==
    [variant : {"FourRoomEnv", "ImposterTrainingGround"}, n_imposters : {1},
     n_crew : CrewCounts, n_jobs : 0 .. 1, is_action_order_random : {FALSE},
     shuffle_imposter_index : {FALSE}, tag_reset_interval : {0},
     caller_actions : {{"STAY", "KILL", "FIX"}}, step_budget : {MaxSteps}]
    \cup
    [variant : {"FourRoomEnvWithTagging"}, n_imposters : {1},
     n_crew : CrewCounts, n_jobs : 0 .. 1, is_action_order_random : {FALSE},
     shuffle_imposter_index : {FALSE}, tag_reset_interval : 1 .. MaxInterval,
     caller_actions : {{"STAY", "KILL", "FIX"}}, step_budget : {MaxSteps}]

\* one job, shuffled roles, few moves and a budget one step shorter, in each of
\* the three classes
AnyConfigs ==
    TaggingConfigs
    \cup [variant : {"FourRoomEnv"}, n_imposters : {1}, n_crew : CrewCounts,
          n_jobs : {1}, is_action_order_random : {TRUE},
          shuffle_imposter_index : {TRUE}, tag_reset_interval : {0},
          caller_actions : {FewMoves}, step_budget : {MaxSteps - 1}]
    \cup [variant : {"ImposterTrainingGround"}, n_imposters : {1},
          n_crew : CrewCounts, n_jobs : {1}, is_action_order_random : {FALSE},
          shuffle_imposter_index : {TRUE}, tag_reset_interval : {0},
          caller_actions : {FewMoves}, step_budget : {MaxSteps - 1}]

\* FourRoomEnv with three crew and two imposters, a caller that only kills and
\* fixes, fixed action order and a budget one step shorter
ResetConfigs ==
    [variant : {"FourRoomEnv"}, n_imposters : {2}, n_crew : {3},
     n_jobs : 1 .. MaxJobs, is_action_order_random : {FALSE},
     shuffle_imposter_index : BooleanFlags, tag_reset_interval : {0},
     caller_actions : {{"KILL", "FIX"}}, step_budget : {MaxSteps - 1}]

\* FourRoomEnv with one job and shuffled roles, stepped once with few actions
\* by a caller that passes seeds to reset
SeedConfigs ==
    [variant : {"FourRoomEnv"}, n_imposters : {1}, n_crew : CrewCounts,
     n_jobs : {1}, is_action_order_random : {FALSE},
     shuffle_imposter_index : {TRUE}, tag_reset_interval : {0},
     caller_actions : {{"STAY", "DOWN", "KILL", "FIX"}},
     step_budget : {MaxSteps - 1}]

\* the positional arguments of __init__
Arguments(c) ==
    [n_imposters |-> c.n_imposters, n_crew |-> c.n_crew, n_jobs |-> c.n_jobs]

\* the state __init__ leaves when called with c by a caller that will reset
\* with the given seeds: no episode data until the first reset
ConstructedAsking(c, seeds, q) ==
    /\ variant = c.variant
    /\ n_imposters = c.n_imposters
    /\ n_crew = c.n_crew
    /\ n_jobs = c.n_jobs
    /\ is_action_order_random = c.is_action_order_random
    /\ shuffle_imposter_index = c.shuffle_imposter_index
    /\ tag_reset_interval = c.tag_reset_interval
    /\ caller_actions = c.caller_actions
    /\ step_budget = c.step_budget
    /\ imposter_idxs = <<>>
    /\ imposter_mask = <<>>
    /\ crew_mask = <<>>
    /\ crew_idxs = <<>>
    /\ agent_positions = <<>>
    /\ job_positions = <<>>
    /\ alive_agents = <<>>
    /\ completed_jobs = <<>>
    /\ agent_action_map = <<>>
    /\ tag_counts = IF c.variant = "FourRoomEnvWithTagging"
                    THEN [a \in 0 .. (c.n_imposters + c.n_crew - 1) |-> 0]
                    ELSE <<>>
    /\ used_tag_actions = IF c.variant = "FourRoomEnvWithTagging"
                          THEN [a \in 0 .. (c.n_imposters + c.n_crew - 1) |-> FALSE]
                          ELSE <<>>
    /\ tag_reset_timer = 0
    /\ agent_rewards = <<>>
    /\ agent_action_order = <<>>
    /\ total_time_steps = 0
    /\ pc = "constructed"
    /\ last_act = NoAct
    /\ step_log = <<>>
    /\ ret = [kind |-> "none"]
    /\ args = Arguments(c)
    /\ caller_seeds = seeds
    /\ seeded_draws = [s \in seeds |-> Nothing]
    /\ seed_obs = [s \in seeds |-> Nothing]
    /\ before_step = Nothing
    /\ index_legal = TRUE
    /\ query = q
    /\ tags_made = <<>>
    /\ first_done = "IN_PROGRESS"

\* the state __init__ leaves for a caller that passes seeds to reset
ConstructedFor(c, seeds) == ConstructedAsking(c, seeds, Nothing)

\* the state __init__ leaves for a caller that never passes a seed to reset
Constructed(c) == ConstructedFor(c, {})

\* FourRoomEnv called with valid and invalid counts; roles and action order
\* not shuffled, a caller that lets agents stay or kill for one step
NewConfigs ==
    [variant : {"FourRoomEnv"}, n_imposters : (0 - 1) .. (MaxArg - 1),
     n_crew : (0 - 1) .. MaxArg, n_jobs : (0 - 1) .. 1,
     is_action_order_random : {FALSE}, shuffle_imposter_index : {FALSE},
     tag_reset_interval : {0}, caller_actions : {{"STAY", "KILL"}},
     step_budget : {MaxSteps - 1}]

\* every class called with valid and invalid counts; ImposterTrainingGround
\* takes no n_imposters and passes 1
AnyNewConfigs ==
    NewConfigs
    \cup
    [variant : {"ImposterTrainingGround"}, n_imposters : {1},
     n_crew : (0 - 1) .. MaxArg, n_jobs : (0 - 1) .. 1,
     is_action_order_random : {FALSE}, shuffle_imposter_index : {FALSE},
     tag_reset_interval : {0}, caller_actions : {{"STAY", "KILL"}},
     step_budget : {MaxSteps - 1}]
    \cup
    [variant : {"FourRoomEnvWithTagging"}, n_imposters : 0 .. 1,
     n_crew : 1 .. 2, n_jobs : (0 - 1) .. 0,
     is_action_order_random : {FALSE}, shuffle_imposter_index : {FALSE},
     tag_reset_interval : {1}, caller_actions : {{"STAY", "KILL"}},
     step_budget : {MaxSteps - 1}]

\* __init__ has been called with c and has not run yet: no attribute is set
New(c) ==
    /\ variant = c.variant
    /\ n_imposters = 0
    /\ n_crew = 0
    /\ n_jobs = 0
    /\ is_action_order_random = c.is_action_order_random
    /\ shuffle_imposter_index = c.shuffle_imposter_index
    /\ tag_reset_interval = c.tag_reset_interval
    /\ caller_actions = c.caller_actions
    /\ step_budget = c.step_budget
    /\ imposter_idxs = <<>>
    /\ imposter_mask = <<>>
    /\ crew_mask = <<>>
    /\ crew_idxs = <<>>
    /\ agent_positions = <<>>
    /\ job_positions = <<>>
    /\ alive_agents = <<>>
    /\ completed_jobs = <<>>
    /\ agent_action_map = <<>>
    /\ tag_counts = <<>>
    /\ used_tag_actions = <<>>
    /\ tag_reset_timer = 0
    /\ agent_rewards = <<>>
    /\ agent_action_order = <<>>
    /\ total_time_steps = 0
    /\ pc = "new"
    /\ last_act = NoAct
    /\ step_log = <<>>
    /\ ret = [kind |-> "none"]
    /\ args = Arguments(c)
    /\ caller_seeds = {}
    /\ seeded_draws = <<>>
    /\ seed_obs = <<>>
    /\ before_step = Nothing
    /\ index_legal = TRUE
    /\ query = Nothing
    /\ tags_made = <<>>
    /\ first_done = "IN_PROGRESS"

\* variant of _validate_init_args: as many imposters as crew are let through
_validate_init_args_allows_parity(imposters, crew, jobs) ==
    IF variant = "ImposterTrainingGround"
    THEN crew > 0
    ELSE imposters > 0 /\ crew > 0 /\ jobs >= 0 /\ imposters <= crew

\* _validate_init_args: TRUE when every assert passes
_validate_init_args(imposters, crew, jobs) ==
    IF variant = "ImposterTrainingGround"
    THEN crew > 0
    ELSE imposters > 0 /\ crew > 0 /\ jobs >= 0 /\ imposters < crew

\* __init__: validate the arguments, then store them
Construct ==
    /\ pc = "new"
    /\ IF _validate_init_args(args.n_imposters, args.n_crew, args.n_jobs)
       THEN /\ n_imposters' = args.n_imposters
            /\ n_crew' = args.n_crew
            /\ n_jobs' = args.n_jobs
            /\ tag_counts' =
                 IF variant = "FourRoomEnvWithTagging"
                 THEN [a \in 0 .. (args.n_imposters + args.n_crew - 1) |-> 0]
                 ELSE <<>>
            /\ used_tag_actions' =
                 IF variant = "FourRoomEnvWithTagging"
                 THEN [a \in 0 .. (args.n_imposters + args.n_crew - 1) |-> FALSE]
                 ELSE <<>>
            /\ pc' = "constructed"
            /\ UNCHANGED ret
       ELSE /\ pc' = "failed"
            /\ ret' = [kind |-> "error", error |-> "AssertionError"]
            /\ UNCHANGED <<n_imposters, n_crew, n_jobs, tag_counts,
                           used_tag_actions>>
    /\ UNCHANGED <<variant, is_action_order_random, shuffle_imposter_index,
                   tag_reset_interval, caller_actions, step_budget, roles,
                   agent_positions, job_positions, alive_agents, completed_jobs,
                   agent_action_map, tag_reset_timer, agent_rewards,
                   agent_action_order, total_time_steps, last_act, step_log,
                   seeding, before_step, index_legal, tags_made, first_done>>

Init == \E c \in BaseConfigs : Constructed(c)

----------------------------------------------------------------------------
(* reset *)

\* variant of ImposterIdxChoices: unshuffled imposters are the last indices
ImposterIdxChoices_last_indices ==
    IF shuffle_imposter_index
    THEN DistinctSeqs(Agents, n_imposters)
    ELSE {[k \in 1 .. n_imposters |-> n_agents - k]}

\* variant of ImposterIdxChoices: drawn with replacement
ImposterIdxChoices_with_replacement ==
    IF shuffle_imposter_index
    THEN [1 .. n_imposters -> Agents]
    ELSE {[k \in 1 .. n_imposters |-> k - 1]}

\* imposter_idxs: np.random.choice(range(n_agents), n_imposters, replace=False)
\* when shuffling, np.arange(n_imposters) otherwise (kept 1-indexed as a sequence)
ImposterIdxChoices ==
    IF shuffle_imposter_index
    THEN DistinctSeqs(Agents, n_imposters)
    ELSE {[k \in 1 .. n_imposters |-> k - 1]}

ImposterMask(idxs) == [a \in Agents |-> a \in Range(idxs)]

CrewMask(mask) == [a \in Agents |-> ~mask[a]]

\* variant of TagActions: np.arange(n_agents), the agent itself included
TagActions_with_self(agent_idx, k) ==
    [i \in 1 .. (n_agents - k) |-> TagAct(k + i - 1)]

\* the tag actions of agent_idx: np.arange(n_agents)[np.arange(n_agents) != agent_idx]
RECURSIVE TagActions(_, _)
TagActions(agent_idx, k) ==
    IF k >= n_agents THEN <<>>
    ELSE (IF k # agent_idx THEN <<TagAct(k)>> ELSE <<>>) \o TagActions(agent_idx, k + 1)

\* variant of BaseActionMap: the imposters' set is not written over the crew's
BaseActionMap_crew_only(idxs) == [a \in Agents |-> CREW_ACTIONS]

BaseActionMap(idxs) ==
    [a \in Agents |-> IF a \in Range(idxs) THEN IMPOSTER_ACTIONS ELSE CREW_ACTIONS]

ActionMap(idxs) ==
    IF variant = "FourRoomEnvWithTagging"
    THEN [a \in Agents |-> BaseActionMap(idxs)[a] \o TagActions(a, 0)]
    ELSE BaseActionMap(idxs)

\* variant of JobCellChoices: drawn with replacement
JobCellChoices_with_replacement == [1 .. n_jobs -> JobCells]

\* job_cells: np.random.choice(len(valid_positions), n_jobs, replace=False)
JobCellChoices == DistinctSeqs(JobCells, n_jobs)

\* agent_cells: np.random.choice(len(valid_positions), n_agents, replace=True)
AgentCellChoices == [Agents -> AgentCells]

\* what the state looked like when reset was called
Before ==
    [dead |-> \E a \in DOMAIN alive_agents : ~alive_agents[a],
     completed |-> \E j \in DOMAIN completed_jobs : completed_jobs[j],
     votes |-> \E a \in DOMAIN tag_counts : tag_counts[a] > 0,
     used |-> \E a \in DOMAIN used_tag_actions : used_tag_actions[a],
     timer |-> tag_reset_timer > 0,
     done |-> ret.kind = "step" /\ ret.done]

AllAlive == [a \in Agents |-> TRUE]

\* variant of NoJobsCompleted: the flags of the last episode are kept
NoJobsCompleted_stale ==
    IF pc = "constructed" THEN [j \in Jobs |-> FALSE] ELSE completed_jobs

NoJobsCompleted == [j \in Jobs |-> FALSE]

\* variant of GeneratorDraws: the generator is not seeded before the draws
GeneratorDraws_unseeded(seed) ==
    [kind : {"draws"}, idxs : ImposterIdxChoices,
     agent_cells : AgentCellChoices, job_cells : JobCellChoices]

\* what the three draws of reset can give: after np.random.seed(seed) what this
\* seed gave before, anything the generator can give otherwise
GeneratorDraws(seed) ==
    IF seed # None /\ seeded_draws[seed] # Nothing
    THEN {seeded_draws[seed]}
    ELSE [kind : {"draws"}, idxs : ImposterIdxChoices,
          agent_cells : AgentCellChoices, job_cells : JobCellChoices]

\* the components of the observation FourRoomEnv.reset and FourRoomEnv.step
\* return, by name
FourRoomEnv_observation ==
    <<"agent_positions", "alive_agents">>
        \o (IF n_jobs > 0 THEN <<"job_positions", "completed_jobs">> ELSE <<>>)

\* FourRoomEnvWithTagging.reset: (*state, used_tag_actions, tag_counts, time left)
FourRoomEnvWithTagging_reset_observation ==
    FourRoomEnv_observation \o <<"used_tag_actions", "tag_counts", "time_left">>

\* the tuple FourRoomEnvWithTagging.step returns
FourRoomEnvWithTagging_step_observation ==
    <<"agent_positions", "alive_agents", "job_positions", "completed_jobs",
      "used_tag_actions", "tag_counts", "time_left">>

reset_observation ==
    IF variant = "FourRoomEnvWithTagging"
    THEN FourRoomEnvWithTagging_reset_observation
    ELSE FourRoomEnv_observation

step_observation ==
    IF variant = "FourRoomEnvWithTagging"
    THEN FourRoomEnvWithTagging_step_observation
    ELSE FourRoomEnv_observation

\* what reset returns of the state (the roles are read off the environment)
Observation ==
    [kind |-> "observation", imposter_idxs |-> imposter_idxs,
     agent_positions |-> agent_positions, job_positions |-> job_positions,
     alive_agents |-> alive_agents, completed_jobs |-> completed_jobs]

\* the episode state a failed step must leave alone
Snapshot ==
    [kind |-> "snapshot", agent_positions |-> agent_positions,
     alive_agents |-> alive_agents, completed_jobs |-> completed_jobs,
     tag_counts |-> tag_counts, used_tag_actions |-> used_tag_actions,
     tag_reset_timer |-> tag_reset_timer]

Reset ==
    /\ pc \in {"constructed", "ready"}
    /\ n_jobs >= 0
    /\ alive_agents' = AllAlive
    /\ completed_jobs' = NoJobsCompleted
    /\ IF variant = "FourRoomEnvWithTagging"
       THEN /\ tag_counts' = [a \in Agents |-> 0]
            /\ used_tag_actions' = [a \in Agents |-> FALSE]
            /\ tag_reset_timer' = 0
       ELSE UNCHANGED tagging
    /\ \E seed \in caller_seeds \cup {None} :
         /\ \E draws \in GeneratorDraws(seed) :
              /\ imposter_idxs' = draws.idxs
              /\ imposter_mask' = ImposterMask(draws.idxs)
              /\ crew_mask' = CrewMask(ImposterMask(draws.idxs))
              /\ crew_idxs' = Where(CrewMask(ImposterMask(draws.idxs)), 0, n_agents)
              /\ agent_action_map' = ActionMap(draws.idxs)
              /\ agent_positions' = draws.agent_cells
              /\ job_positions' = [j \in Jobs |-> draws.job_cells[j + 1]]
              /\ seeded_draws' = IF seed # None
                                 THEN [seeded_draws EXCEPT ![seed] = draws]
                                 ELSE seeded_draws
         /\ seed_obs' = IF seed # None /\ seed_obs[seed] = Nothing
                        THEN [seed_obs EXCEPT ![seed] = Observation']
                        ELSE seed_obs
         /\ ret' = [kind |-> "reset", before |-> Before, seed |-> seed,
                    again |-> seed # None /\ seed_obs[seed] # Nothing,
                    observation |-> reset_observation,
                    time_left |-> tag_reset_interval - tag_reset_timer']
    /\ total_time_steps' = 0
    /\ pc' = "ready"
    /\ last_act' = NoAct
    /\ step_log' = <<>>
    /\ before_step' = Nothing
    /\ index_legal' = TRUE
    /\ tags_made' = [a \in Agents |-> [episode |-> 0, round |-> 0]]
    /\ first_done' = "IN_PROGRESS"
    /\ UNCHANGED <<config, agent_rewards, agent_action_order, args, caller_seeds,
                   query>>

\* reset of an environment built with n_jobs < 0: np.random.choice raises
\* ValueError for the negative size, after the roles and the agent positions
\* have been drawn
ResetRaises ==
    /\ pc \in {"constructed", "ready"}
    /\ n_jobs < 0
    /\ \E idxs \in ImposterIdxChoices, agent_cells \in AgentCellChoices :
         /\ imposter_idxs' = idxs
         /\ imposter_mask' = ImposterMask(idxs)
         /\ crew_mask' = CrewMask(ImposterMask(idxs))
         /\ crew_idxs' = Where(CrewMask(ImposterMask(idxs)), 0, n_agents)
         /\ agent_positions' = agent_cells
    /\ ret' = [kind |-> "error", error |-> "ValueError"]
    /\ UNCHANGED <<config, job_positions, alive_agents, completed_jobs,
                   agent_action_map, tagging, agent_rewards, agent_action_order,
                   total_time_steps, pc, last_act, step_log, seeding, before_step,
                   index_legal, tags_made, first_done>>

----------------------------------------------------------------------------
(* Queries used by the action resolver *)

\* variant of _get_agents_at_pos: the position filter is missing
_get_agents_at_pos_any_cell(pos, crew_only) ==
    IF crew_only
    THEN {a \in Agents : alive_agents[a] /\ ~imposter_mask[a]}
    ELSE {a \in Agents : alive_agents[a]}

_get_agents_at_pos(pos, crew_only) ==
    LET alive == IF crew_only
                 THEN {a \in Agents : alive_agents[a] /\ ~imposter_mask[a]}
                 ELSE {a \in Agents : alive_agents[a]}
    IN  {a \in alive : agent_positions[a] = pos}

_get_job_at_pos(pos) ==
    LET idx == {j \in Jobs : job_positions[j] = pos}
    IN  IF idx # {} THEN Min(idx) ELSE None

\* variant of check_win_condition: the imposter branch is tested first
FourRoomEnv_check_win_condition_imposters_first(alive, completed) ==
    LET imposters_alive == Count(alive, {a \in Agents : imposter_mask[a]})
        all_alive == Count(alive, Agents)
    IN  IF all_alive - imposters_alive <= imposters_alive
        THEN [done |-> TRUE, reward |-> (0 - 1) * game_end_reward,
              winner |-> "IMPOSTER_WIN"]
        ELSE IF imposters_alive = 0 \/ Count(completed, Jobs) = n_jobs
        THEN [done |-> TRUE, reward |-> game_end_reward, winner |-> "CREW_WIN"]
        ELSE [done |-> FALSE, reward |-> 0, winner |-> "IN_PROGRESS"]

\* variant of check_win_condition: completed jobs are not looked at
FourRoomEnv_check_win_condition_no_jobs(alive, completed) ==
    LET imposters_alive == Count(alive, {a \in Agents : imposter_mask[a]})
        all_alive == Count(alive, Agents)
    IN  IF imposters_alive = 0
        THEN [done |-> TRUE, reward |-> game_end_reward, winner |-> "CREW_WIN"]
        ELSE IF all_alive - imposters_alive <= imposters_alive
        THEN [done |-> TRUE, reward |-> (0 - 1) * game_end_reward,
              winner |-> "IMPOSTER_WIN"]
        ELSE [done |-> FALSE, reward |-> 0, winner |-> "IN_PROGRESS"]

\* FourRoomEnv.check_win_condition on the given alive and completed arrays
FourRoomEnv_check_win_condition(alive, completed) ==
    LET imposters_alive == Count(alive, {a \in Agents : imposter_mask[a]})
        all_alive == Count(alive, Agents)
    IN  IF imposters_alive = 0 \/ Count(completed, Jobs) = n_jobs
        THEN [done |-> TRUE, reward |-> game_end_reward, winner |-> "CREW_WIN"]
        ELSE IF all_alive - imposters_alive <= imposters_alive
        THEN [done |-> TRUE, reward |-> (0 - 1) * game_end_reward,
              winner |-> "IMPOSTER_WIN"]
        ELSE [done |-> FALSE, reward |-> 0, winner |-> "IN_PROGRESS"]

\* variant of ImposterTrainingGround.check_win_condition: the imposter wins at
\* parity, as in FourRoomEnv
ImposterTrainingGround_check_win_condition_at_parity(alive, completed) ==
    IF n_jobs # 0 /\ Count(completed, Jobs) = n_jobs
    THEN [done |-> TRUE, reward |-> game_end_reward, winner |-> "CREW_WIN"]
    ELSE IF Count(alive, {a \in Agents : crew_mask[a]})
               <= Count(alive, {a \in Agents : imposter_mask[a]})
    THEN [done |-> TRUE, reward |-> (0 - 1) * game_end_reward,
          winner |-> "IMPOSTER_WIN"]
    ELSE [done |-> FALSE, reward |-> 0, winner |-> "IN_PROGRESS"]

\* ImposterTrainingGround.check_win_condition
ImposterTrainingGround_check_win_condition(alive, completed) ==
    IF n_jobs # 0 /\ Count(completed, Jobs) = n_jobs
    THEN [done |-> TRUE, reward |-> game_end_reward, winner |-> "CREW_WIN"]
    ELSE IF Count(alive, {a \in Agents : crew_mask[a]}) = 0
    THEN [done |-> TRUE, reward |-> (0 - 1) * game_end_reward,
          winner |-> "IMPOSTER_WIN"]
    ELSE [done |-> FALSE, reward |-> 0, winner |-> "IN_PROGRESS"]

check_win_condition(alive, completed) ==
    IF variant = "ImposterTrainingGround"
    THEN ImposterTrainingGround_check_win_condition(alive, completed)
    ELSE FourRoomEnv_check_win_condition(alive, completed)

\* variant of _merge_rewards: the dead-agent penalty is written first
_merge_rewards_penalty_first(rewards, team_reward, alive) ==
    LET penalised == [a \in Agents |-> IF ~alive[a] THEN dead_penalty ELSE rewards[a]]
        added == [a \in Agents |-> penalised[a] + team_reward]
    IN  [a \in Agents |->
            IF a < n_imposters THEN added[a] * (0 - 1) ELSE added[a]]

_merge_rewards(rewards, team_reward, alive) ==
    LET added == [a \in Agents |-> rewards[a] + team_reward]
        negated == [a \in Agents |->
                       IF a < n_imposters THEN added[a] * (0 - 1) ELSE added[a]]
    IN  [a \in Agents |-> IF ~alive[a] THEN dead_penalty ELSE negated[a]]

\* one entry of step_log
Event(kind, agent_idx, target, completed) ==
    [kind |-> kind, agent |-> agent_idx, target |-> target,
     n_completed |-> Count(completed, Jobs)]

----------------------------------------------------------------------------
(* step *)

\* variant of EpisodeFrame: the job cells are handed round among the jobs
EpisodeFrame_jobs_rotate ==
    /\ job_positions' = [j \in Jobs |-> job_positions[(j + 1) % n_jobs]]
    /\ UNCHANGED <<roles, agent_action_map>>

\* step, _agent_step and _agent_tag assign none of the role arrays, the job
\* cells and the action sets: reset alone writes them
EpisodeFrame == UNCHANGED <<roles, job_positions, agent_action_map>>

\* the asserts at the head of step pass: the loop is entered
StepBegin ==
    /\ pc = "ready"
    /\ total_time_steps < step_budget
    /\ \E len \in (n_agents - 1) .. (n_agents + 1), below_n \in BooleanFlags :
         len = n_agents /\ below_n
    /\ total_time_steps' = total_time_steps + 1
    /\ agent_rewards' = [a \in Agents |-> time_step_reward]
    /\ agent_action_order' \in
         IF is_action_order_random
         THEN {[k \in 1 .. n_agents |-> s[k]] : s \in DistinctSeqs(Agents, n_agents)}
         ELSE {[k \in 1 .. n_agents |-> k - 1]}
    /\ pc' = "acting"
    /\ last_act' = NoAct
    /\ step_log' = <<>>
    /\ ret' = [kind |-> "running"]
    /\ before_step' = Snapshot
    /\ index_legal' = TRUE
    /\ EpisodeFrame
    /\ UNCHANGED <<config, agent_positions, alive_agents, completed_jobs,
                   tagging, seeding, tags_made, first_done>>

\* an assert at the head of step fails: wrong length, or an action >= action_space.n
StepRejected ==
    /\ pc = "ready"
    /\ \E len \in (n_agents - 1) .. (n_agents + 1), below_n \in BooleanFlags :
         ~(len = n_agents /\ below_n)
    /\ ret' = [kind |-> "error", error |-> "AssertionError"]
    /\ before_step' = Snapshot
    /\ UNCHANGED <<config, roles, agent_positions, job_positions, alive_agents,
                   completed_jobs, agent_action_map, tagging, agent_rewards,
                   agent_action_order, total_time_steps, pc, last_act, step_log,
                   seeding, index_legal, tags_made, first_done>>

\* variant of FixJob: the flag is flipped, whatever it was
FixJob_toggles(job_idx) ==
    IF job_idx # None
    THEN [completed_jobs EXCEPT ![job_idx] = ~completed_jobs[job_idx]]
    ELSE completed_jobs

\* completed_jobs after a Fix at the cell of job job_idx (None: no job there)
FixJob(job_idx) ==
    IF job_idx # None /\ ~completed_jobs[job_idx]
    THEN [completed_jobs EXCEPT ![job_idx] = TRUE]
    ELSE completed_jobs

\* variant of SabotageJob: the flag is flipped, whatever it was
SabotageJob_toggles(job_idx) ==
    IF job_idx # None
    THEN [completed_jobs EXCEPT ![job_idx] = ~completed_jobs[job_idx]]
    ELSE completed_jobs

\* completed_jobs after a Sabotage at the cell of job job_idx
SabotageJob(job_idx) ==
    IF job_idx # None /\ completed_jobs[job_idx]
    THEN [completed_jobs EXCEPT ![job_idx] = FALSE]
    ELSE completed_jobs

\* the loop of step goes on to the next agent
Continue ==
    /\ agent_action_order' = Tail(agent_action_order)
    /\ UNCHANGED <<pc, ret>>

\* an exception leaves step: nothing done so far is undone, nothing is returned
Raise(error) ==
    /\ pc' = "ready"
    /\ agent_action_order' = <<>>
    /\ ret' = [kind |-> "error", error |-> error]

\* variant of KillVictim: every other agent is alive afterwards
KillVictim_others_alive(victim_idx) ==
    [a \in Agents |-> a # victim_idx]

\* alive_agents after a Kill: self.alive_agents[victim_idx] = False
KillVictim(victim_idx) ==
    [alive_agents EXCEPT ![victim_idx] = FALSE]

\* variant of KillRewards: kill_reward is added to the step rewards
KillRewards_added(agent_idx, victim_idx) ==
    [[agent_rewards EXCEPT ![victim_idx] = @ + kill_reward]
        EXCEPT ![agent_idx] = @ + kill_reward]

\* agent_rewards after a Kill: victim and actor are set to kill_reward
KillRewards(agent_idx, victim_idx) ==
    [[agent_rewards EXCEPT ![victim_idx] = kill_reward]
        EXCEPT ![agent_idx] = kill_reward]

\* FourRoomEnv._agent_step
_agent_step(agent_idx, agent_action) ==
    LET pos == agent_positions[agent_idx]
        info == [agent |-> agent_idx, action |-> agent_action,
                 alive |-> alive_agents[agent_idx], victim |-> None,
                 job_idx |-> None, applied |-> FALSE]
    IN
    IF ~alive_agents[agent_idx]
    THEN /\ last_act' = info
         /\ Continue
         /\ UNCHANGED <<agent_positions, alive_agents, completed_jobs,
                        agent_rewards, step_log>>
    ELSE IF is_move_action(agent_action)
    THEN LET new_pos == move(agent_action, pos)
         IN  /\ agent_positions' =
                   IF _is_valid_position(new_pos)
                   THEN [agent_positions EXCEPT ![agent_idx] = new_pos]
                   ELSE agent_positions
             /\ last_act' = [info EXCEPT !.applied = _is_valid_position(new_pos)]
             /\ Continue
             /\ UNCHANGED <<alive_agents, completed_jobs, agent_rewards, step_log>>
    ELSE IF agent_action.kind = "KILL"
    THEN LET agents_at_pos == _get_agents_at_pos(pos, TRUE)
         IN  IF agents_at_pos # {}
             THEN \E victim_idx \in agents_at_pos :
                    \* assert victim_idx not in self.imposter_idxs
                    IF victim_idx \in Range(imposter_idxs)
                    THEN /\ last_act' = [info EXCEPT !.victim = victim_idx]
                         /\ Raise("AssertionError")
                         /\ UNCHANGED <<agent_positions, alive_agents,
                                        completed_jobs, agent_rewards, step_log>>
                    ELSE /\ alive_agents' = KillVictim(victim_idx)
                         /\ agent_rewards' = KillRewards(agent_idx, victim_idx)
                         /\ last_act' = [info EXCEPT !.victim = victim_idx,
                                                     !.applied = TRUE]
                         /\ Continue
                         /\ step_log' = Append(step_log,
                              Event("KILL", agent_idx, victim_idx, completed_jobs))
                         /\ UNCHANGED <<agent_positions, completed_jobs>>
             ELSE /\ last_act' = info
                  /\ Continue
                  /\ UNCHANGED <<agent_positions, alive_agents, completed_jobs,
                                 agent_rewards, step_log>>
    ELSE IF agent_action.kind = "FIX"
    THEN LET job_idx == _get_job_at_pos(pos)
             fixed == FixJob(job_idx)
         IN  IF fixed # completed_jobs
             THEN /\ completed_jobs' = fixed
                  /\ agent_rewards' =
                       [agent_rewards EXCEPT ![agent_idx] = complete_job_reward]
                  /\ last_act' = [info EXCEPT !.job_idx = job_idx, !.applied = TRUE]
                  /\ Continue
                  /\ step_log' = Append(step_log,
                       Event("FIX", agent_idx, job_idx, fixed))
                  /\ UNCHANGED <<agent_positions, alive_agents>>
             ELSE /\ last_act' = [info EXCEPT !.job_idx = job_idx]
                  /\ Continue
                  /\ UNCHANGED <<agent_positions, alive_agents, completed_jobs,
                                 agent_rewards, step_log>>
    ELSE IF agent_action.kind = "SABOTAGE"
    THEN LET job_idx == _get_job_at_pos(pos)
             sabotaged == SabotageJob(job_idx)
         IN  IF sabotaged # completed_jobs
             THEN /\ completed_jobs' = sabotaged
                  /\ agent_rewards' =
                       [agent_rewards EXCEPT ![agent_idx] = (0 - 1) * sabotage_reward]
                  /\ last_act' = [info EXCEPT !.job_idx = job_idx, !.applied = TRUE]
                  /\ Continue
                  /\ step_log' = Append(step_log,
                       Event("SABOTAGE", agent_idx, job_idx, sabotaged))
                  /\ UNCHANGED <<agent_positions, alive_agents>>
             ELSE /\ last_act' = [info EXCEPT !.job_idx = job_idx]
                  /\ Continue
                  /\ UNCHANGED <<agent_positions, alive_agents, completed_jobs,
                                 agent_rewards, step_log>>
    ELSE /\ last_act' = info
         /\ Continue
         /\ UNCHANGED <<agent_positions, alive_agents, completed_jobs,
                        agent_rewards, step_log>>

\* variant of _agent_tag: the target is not required to be alive
_agent_tag_dead_target(agent_idx, agent_tagged) ==
    LET info == [agent |-> agent_idx, action |-> TagAct(agent_tagged),
                 alive |-> alive_agents[agent_idx], victim |-> None,
                 job_idx |-> None, applied |-> FALSE]
    IN
    IF ~used_tag_actions[agent_idx]
    THEN /\ tag_counts' = [tag_counts EXCEPT ![agent_tagged] = @ + 1]
         /\ used_tag_actions' = [used_tag_actions EXCEPT ![agent_idx] = TRUE]
         /\ tags_made' = [tags_made EXCEPT ![agent_idx] =
                             [episode |-> @.episode + 1, round |-> @.round + 1]]
         /\ last_act' = [info EXCEPT !.applied = TRUE]
         /\ step_log' = Append(step_log,
              Event("TAG", agent_idx, agent_tagged, completed_jobs))
         /\ Continue
         /\ UNCHANGED tag_reset_timer
    ELSE /\ last_act' = info
         /\ Continue
         /\ UNCHANGED <<tagging, step_log, tags_made>>

\* variant of _agent_tag: a spent accusation can be used again
_agent_tag_flag_ignored(agent_idx, agent_tagged) ==
    LET info == [agent |-> agent_idx, action |-> TagAct(agent_tagged),
                 alive |-> alive_agents[agent_idx], victim |-> None,
                 job_idx |-> None, applied |-> FALSE]
    IN
    IF alive_agents[agent_tagged]
    THEN /\ tag_counts' = [tag_counts EXCEPT ![agent_tagged] = @ + 1]
         /\ used_tag_actions' = [used_tag_actions EXCEPT ![agent_idx] = TRUE]
         /\ tags_made' = [tags_made EXCEPT ![agent_idx] =
                             [episode |-> @.episode + 1, round |-> @.round + 1]]
         /\ last_act' = [info EXCEPT !.applied = TRUE]
         /\ step_log' = Append(step_log,
              Event("TAG", agent_idx, agent_tagged, completed_jobs))
         /\ Continue
         /\ UNCHANGED tag_reset_timer
    ELSE /\ last_act' = info
         /\ Continue
         /\ UNCHANGED <<tagging, step_log, tags_made>>

\* FourRoomEnvWithTagging._agent_tag
_agent_tag(agent_idx, agent_tagged) ==
    LET info == [agent |-> agent_idx, action |-> TagAct(agent_tagged),
                 alive |-> alive_agents[agent_idx], victim |-> None,
                 job_idx |-> None, applied |-> FALSE]
    IN
    IF ~used_tag_actions[agent_idx] /\ alive_agents[agent_tagged]
    THEN /\ tag_counts' = [tag_counts EXCEPT ![agent_tagged] = @ + 1]
         /\ used_tag_actions' = [used_tag_actions EXCEPT ![agent_idx] = TRUE]
         /\ tags_made' = [tags_made EXCEPT ![agent_idx] =
                             [episode |-> @.episode + 1, round |-> @.round + 1]]
         /\ last_act' = [info EXCEPT !.applied = TRUE]
         /\ step_log' = Append(step_log,
              Event("TAG", agent_idx, agent_tagged, completed_jobs))
         /\ Continue
         /\ UNCHANGED tag_reset_timer
    ELSE /\ last_act' = info
         /\ Continue
         /\ UNCHANGED <<tagging, step_log, tags_made>>

\* one iteration of the for-loop of step
AgentAct ==
    /\ pc = "acting"
    /\ agent_action_order # <<>>
    /\ LET agent_idx == Head(agent_action_order)
           actions == agent_action_map[agent_idx]
       IN  \E index \in (0 - NegIdx) .. (action_space_n - 1) :
             /\ index_legal' = (index \in 0 .. (Len(actions) - 1))
             /\ IF index >= Len(actions) \/ index < 0 - Len(actions)
                THEN /\ Raise("IndexError")
                     /\ last_act' = [NoAct EXCEPT !.agent = agent_idx]
                     /\ UNCHANGED <<agent_positions, alive_agents, completed_jobs,
                                    tagging, agent_rewards, step_log, tags_made>>
                ELSE LET agent_action == actions[(index % Len(actions)) + 1]
                     IN  /\ agent_action.kind \in caller_actions
                         /\ IF agent_action.kind = "TAG"
                            THEN /\ _agent_tag(agent_idx, agent_action.tag)
                                 /\ UNCHANGED <<agent_positions, alive_agents,
                                                completed_jobs, agent_rewards>>
                            ELSE /\ _agent_step(agent_idx, agent_action)
                                 /\ UNCHANGED <<tagging, tags_made>>
    /\ EpisodeFrame
    /\ UNCHANGED <<config, total_time_steps, seeding, before_step, first_done>>

\* variant of ArgMax: the last index holding the maximum
ArgMax_last(counts) ==
    CHOOSE a \in Agents :
        /\ \A b \in Agents : counts[b] <= counts[a]
        /\ \A b \in Agents : counts[b] = counts[a] => b <= a

\* np.argmax: the first index holding the maximum
ArgMax(counts) ==
    Min({a \in Agents : \A b \in Agents : counts[b] <= counts[a]})

\* variant of _reset_tagging_state: the countdown timer is left as it is
_reset_tagging_state_keeps_timer ==
    /\ tag_counts' = [a \in Agents |-> 0]
    /\ used_tag_actions' = [a \in Agents |-> FALSE]
    /\ UNCHANGED tag_reset_timer

\* variant of _reset_tagging_state: the accusation-used flags are kept
_reset_tagging_state_keeps_flags ==
    /\ tag_counts' = [a \in Agents |-> 0]
    /\ tag_reset_timer' = 0
    /\ UNCHANGED used_tag_actions

\* FourRoomEnvWithTagging._reset_tagging_state
_reset_tagging_state ==
    /\ tag_counts' = [a \in Agents |-> 0]
    /\ used_tag_actions' = [a \in Agents |-> FALSE]
    /\ tag_reset_timer' = 0

NoVote == [resolved |-> FALSE, highest_vote_idx |-> None, highest_vote |-> 0,
           quorum |-> 0, kicked |-> FALSE]

\* the rest of step after the loop: vote resolution (tagging), win check, merge
StepEnd ==
    /\ pc = "acting"
    /\ agent_action_order = <<>>
    /\ IF variant = "FourRoomEnvWithTagging"
       THEN LET counts == [a \in Agents |->
                              IF alive_agents[a] THEN tag_counts[a] ELSE 0]
                timer == tag_reset_timer + 1
                resolve == timer >= tag_reset_interval
                highest_vote_idx == ArgMax(counts)
                highest_vote == counts[highest_vote_idx]
                quorum == (Count(alive_agents, Agents) + 1) \div 2
                kicked == resolve /\ highest_vote >= quorum
                alive == IF kicked
                         THEN [alive_agents EXCEPT ![highest_vote_idx] = FALSE]
                         ELSE alive_agents
                is_imposter == imposter_mask[highest_vote_idx]
                vote_team_reward ==
                    IF kicked
                    THEN vote_reward * (IF is_imposter THEN 0 - 1 ELSE 1)
                    ELSE 0
                win == check_win_condition(alive, completed_jobs)
                team_reward == vote_team_reward + win.reward
            IN  /\ alive_agents' = alive
                /\ IF resolve
                   THEN /\ _reset_tagging_state
                        /\ tags_made' = [a \in Agents |->
                                            [tags_made[a] EXCEPT !.round = 0]]
                   ELSE /\ tag_counts' = counts
                        /\ tag_reset_timer' = timer
                        /\ UNCHANGED <<used_tag_actions, tags_made>>
                /\ agent_rewards' = _merge_rewards(agent_rewards, team_reward, alive)
                /\ first_done' = IF first_done = "IN_PROGRESS" THEN win.winner
                                  ELSE first_done
                /\ ret' = [kind |-> "step", done |-> win.done,
                           winner |-> win.winner, win_reward |-> win.reward,
                           team_reward |-> team_reward,
                           observation |-> step_observation,
                           time_left |-> tag_reset_interval - tag_reset_timer',
                           vote |-> [resolved |-> resolve,
                                     highest_vote_idx |-> highest_vote_idx,
                                     highest_vote |-> highest_vote,
                                     quorum |-> quorum, kicked |-> kicked]]
       ELSE LET win == check_win_condition(alive_agents, completed_jobs)
            IN  /\ agent_rewards' =
                     _merge_rewards(agent_rewards, win.reward, alive_agents)
                /\ ret' = [kind |-> "step", done |-> win.done,
                           winner |-> win.winner, win_reward |-> win.reward,
                           team_reward |-> win.reward,
                           observation |-> step_observation,
                           time_left |-> tag_reset_interval - tag_reset_timer,
                           vote |-> NoVote]
                /\ first_done' = IF first_done = "IN_PROGRESS" THEN win.winner
                                  ELSE first_done
                /\ UNCHANGED <<alive_agents, tagging, tags_made>>
    /\ pc' = "ready"
    /\ last_act' = NoAct
    /\ before_step' = Nothing
    /\ index_legal' = TRUE
    /\ EpisodeFrame
    /\ UNCHANGED <<config, agent_positions, completed_jobs, agent_action_order,
                   total_time_steps, step_log, seeding>>

----------------------------------------------------------------------------
(* Specifications *)

Next ==
    \/ Reset
    \/ StepBegin
    \/ StepRejected
    \/ AgentAct
    \/ StepEnd

\* FourRoomEnv
Spec == Init /\ [][Next]_vars

InitTagging == \E c \in TaggingConfigs : Constructed(c)

\* FourRoomEnvWithTagging
SpecTagging == InitTagging /\ [][Next]_vars

InitVote == \E c \in VoteConfigs : Constructed(c)

\* FourRoomEnvWithTagging: accusations and vote resolutions
SpecVote == InitVote /\ [][Next]_vars

InitObservation == \E c \in ObservationConfigs : Constructed(c)

\* every class, with and without jobs: what reset and step return
SpecObservation == InitObservation /\ [][Next]_vars

InitFixedRoles == \E c \in FixedRoleConfigs : Constructed(c)

\* environments built with shuffle_imposter_index = False
SpecFixedRoles == InitFixedRoles /\ [][Next]_vars

InitTraining == \E c \in TrainingConfigs : Constructed(c)

\* ImposterTrainingGround
SpecTraining == InitTraining /\ [][Next]_vars

InitReset == \E c \in ResetConfigs : Constructed(c)

\* FourRoomEnv with two imposters: role assignment and job placement
SpecReset == InitReset /\ [][Next]_vars

InitAny == \E c \in AnyConfigs : Constructed(c)

\* every environment variant
SpecAny == InitAny /\ [][Next]_vars

InitNew == \E c \in NewConfigs : New(c)

NextFromNew ==
    \/ Construct
    \/ Reset
    \/ StepBegin
    \/ StepRejected
    \/ AgentAct
    \/ StepEnd

\* FourRoomEnv from the call of __init__ on
SpecNew == InitNew /\ [][NextFromNew]_vars

InitAnyNew == \E c \in AnyNewConfigs : New(c)

NextFromAnyNew ==
    \/ Construct
    \/ Reset
    \/ ResetRaises
    \/ StepBegin
    \/ StepRejected
    \/ AgentAct
    \/ StepEnd

\* every class from the call of __init__ on
SpecAnyNew == InitAnyNew /\ [][NextFromAnyNew]_vars

InitSeed == \E c \in SeedConfigs : ConstructedFor(c, 0 .. MaxSeed)

\* FourRoomEnv reset with seeds
SpecSeed == InitSeed /\ [][Next]_vars

\* the coordinates a caller asks _is_valid_position about
Coordinates == (0 - Margin) .. (n_cols - 1 + Margin)

\* a call of _is_valid_position(query.pos): the bounds test first, the grid
\* read only when it passes
IsValidPositionCall ==
    /\ pc = "constructed"
    /\ query # Nothing
    /\ query.result = "pending"
    /\ query' =
          [query EXCEPT !.result =
              IF valid(query.pos) /\ ~(IndexInRange(query.pos[2], n_rows)
                                       /\ IndexInRange(query.pos[1], n_cols))
              THEN "IndexError"
              ELSE IF _is_valid_position(query.pos) THEN "True" ELSE "False"]
    /\ UNCHANGED <<config, roles, agent_positions, job_positions, alive_agents,
                   completed_jobs, agent_action_map, tagging, agent_rewards,
                   agent_action_order, total_time_steps, pc, last_act, step_log,
                   ret, args, caller_seeds, seeded_draws, seed_obs, before_step,
                   index_legal, tags_made, first_done>>

InitGrid ==
    \E c \in BaseConfigs : \E p \in Coordinates \X Coordinates :
        ConstructedAsking(c, {}, [pos |-> p, result |-> "pending"])

NextGrid == IsValidPositionCall

\* FourRoomEnv._is_valid_position on a constructed environment
SpecGrid == InitGrid /\ [][NextGrid]_vars

----------------------------------------------------------------------------
(* State descriptions used by the properties *)

LivingImposters == Count(alive_agents, {a \in Agents : imposter_mask[a]})

LivingCrew == Count(alive_agents, {a \in Agents : crew_mask[a]})

AllJobsCompleted == Count(completed_jobs, Jobs) = n_jobs

\* the crew-win condition as the win evaluator is documented: no living
\* imposter, or every job of a non-empty job list completed
CrewWinCondition == LivingImposters = 0 \/ (n_jobs > 0 /\ AllJobsCompleted)

\* the imposter-win condition: parity or majority among the living
ImposterWinCondition == LivingCrew <= LivingImposters

\* step has returned and nothing was called since
StepReturned == pc = "ready" /\ ret.kind = "step"

\* this transition is a loop iteration of step in which a Kill took a victim
KillResolved ==
    /\ pc = "acting"
    /\ agent_action_order # <<>>
    /\ last_act'.action.kind = "KILL"
    /\ last_act'.applied

\* this transition is a vote resolution that removes agent a
VotedOut(a) ==
    /\ variant = "FourRoomEnvWithTagging"
    /\ pc = "acting"
    /\ agent_action_order = <<>>
    /\ ret'.kind = "step"
    /\ ret'.vote.kicked
    /\ ret'.vote.highest_vote_idx = a

----------------------------------------------------------------------------
(* Kill *)

\* C1: in every variant the victim of a successful Kill is a living crew agent
\* on the acting agent's cell when the Kill is resolved; an imposter's alive
\* flag is cleared only by vote resolution, never by Kill, so that without
\* voting every imposter is alive in every state
C1_KillTakesLivingCrewOnCell ==
    [][ /\ KillResolved =>
             LET actor == Head(agent_action_order)
                 victim == last_act'.victim
             IN  /\ last_act'.agent = actor
                 /\ victim \in Agents
                 /\ alive_agents[victim]
                 /\ crew_mask[victim]
                 /\ ~imposter_mask[victim]
                 /\ victim \notin Range(imposter_idxs)
                 /\ agent_positions[victim] = agent_positions[actor]
                 /\ ~alive_agents'[victim]
                 /\ \A a \in Agents \ {victim} : alive_agents'[a] = alive_agents[a]
        /\ \A a \in DOMAIN alive_agents :
             (imposter_mask[a] /\ alive_agents[a] /\ ~alive_agents'[a])
                 => VotedOut(a)
        /\ variant # "FourRoomEnvWithTagging" =>
             \A a \in DOMAIN alive_agents' : imposter_mask'[a] => alive_agents'[a]
      ]_vars

\* a step of the tagging variant in which a crew agent was killed and the
\* imposter was then voted out
C1_KillAndVoteOut ==
    /\ variant = "FourRoomEnvWithTagging"
    /\ StepReturned
    /\ \E k \in DOMAIN step_log :
         /\ step_log[k].kind = "KILL"
         /\ crew_mask[step_log[k].target]
         /\ ~alive_agents[step_log[k].target]
    /\ ret.vote.kicked
    /\ imposter_mask[ret.vote.highest_vote_idx]
    /\ ~alive_agents[ret.vote.highest_vote_idx]

----------------------------------------------------------------------------
(* Win evaluation *)

\* C2: after all actions of a FourRoomEnv step, the step reports CREW_WIN
\* (done, team reward +game_end_reward) exactly when no living imposter remains
\* or all jobs are completed, and the jobs clause counts only when n_jobs > 0:
\* with no jobs and a living imposter a step never ends as a crew win
C2_CrewWinExactly ==
    (variant = "FourRoomEnv" /\ StepReturned) =>
        /\ (ret.winner = "CREW_WIN") <=> CrewWinCondition
        /\ ret.winner = "CREW_WIN" =>
              ret.done /\ ret.team_reward = game_end_reward
        /\ (n_jobs = 0 /\ LivingImposters > 0) => ret.winner # "CREW_WIN"

\* C3: after all actions of a step, if the crew-win condition does not hold,
\* the step reports IMPOSTER_WIN (done, team reward -game_end_reward) exactly
\* when living crew <= living imposters, and otherwise IN_PROGRESS (not done,
\* team reward 0)
C3_ImposterWinExactly ==
    (variant = "FourRoomEnv" /\ StepReturned /\ ~CrewWinCondition) =>
        IF ImposterWinCondition
        THEN /\ ret.winner = "IMPOSTER_WIN"
             /\ ret.done
             /\ ret.team_reward = (0 - 1) * game_end_reward
        ELSE /\ ret.winner = "IN_PROGRESS"
             /\ ~ret.done
             /\ ret.team_reward = 0

\* C4: whenever the crew-win condition and the imposter-win condition both
\* hold at the end of a step, the step is a crew win with team reward
\* +game_end_reward, never an imposter win
C4_CrewWinFirst ==
    (variant = "FourRoomEnv" /\ StepReturned
        /\ CrewWinCondition /\ ImposterWinCondition) =>
        /\ ret.winner = "CREW_WIN"
        /\ ret.done
        /\ ret.team_reward = game_end_reward

\* a step ended with all jobs completed while the living imposter had reached
\* parity with the living crew
C4_BothConditionsHold ==
    /\ variant = "FourRoomEnv"
    /\ StepReturned
    /\ n_jobs > 0
    /\ AllJobsCompleted
    /\ LivingImposters > 0
    /\ ImposterWinCondition
    /\ \E k \in DOMAIN step_log : step_log[k].kind = "KILL"

\* C5: Scenario A: with 1 imposter, 2 crew and 0 jobs, when the imposter on
\* the cell of a living crew member issues Kill, that crew member becomes
\* not-alive, victim and imposter both get the kill reward, and the win check
\* of that step yields IMPOSTER_WIN since living crew (1) <= living imposters (1)
C5_ScenarioA ==
    (variant = "FourRoomEnv" /\ n_imposters = 1 /\ n_crew = 2 /\ n_jobs = 0) =>
        /\ (pc = "acting" /\ last_act.action.kind = "KILL" /\ last_act.applied) =>
              /\ ~alive_agents[last_act.victim]
              /\ agent_rewards[last_act.victim] = kill_reward
              /\ agent_rewards[last_act.agent] = kill_reward
        /\ (StepReturned /\ LivingCrew = 1
                /\ \E k \in DOMAIN step_log : step_log[k].kind = "KILL") =>
              /\ LivingImposters = 1
              /\ ret.winner = "IMPOSTER_WIN"
              /\ ret.done

\* a Fix of this step brought the number of completed jobs to n_jobs
CompletingFix(k) ==
    /\ k \in DOMAIN step_log
    /\ step_log[k].kind = "FIX"
    /\ step_log[k].n_completed = n_jobs

\* a Sabotage took effect later in this step than entry k of step_log
SabotagedAfter(k) ==
    \E m \in DOMAIN step_log : m > k /\ step_log[m].kind = "SABOTAGE"

\* C6 as stated: Scenario B: with n_jobs > 0, a step in which a Fix brings the
\* number of completed jobs to n_jobs returns CREW_WIN on that step, whatever
\* the imposters' state and actions and whatever the action order
C6_ScenarioB_AsStated ==
    (variant = "FourRoomEnv" /\ StepReturned /\ n_jobs > 0
        /\ \E k \in DOMAIN step_log : CompletingFix(k)) =>
        ret.winner = "CREW_WIN" /\ ret.done

\* C6: Scenario B: with n_jobs > 0, a step in which a Fix brings the number of
\* completed jobs to n_jobs, and in which no Sabotage takes effect after that
\* Fix, returns CREW_WIN on that step, whatever else the imposters do
C6_ScenarioB ==
    (variant = "FourRoomEnv" /\ StepReturned /\ n_jobs > 0
        /\ \E k \in DOMAIN step_log : CompletingFix(k) /\ ~SabotagedAfter(k)) =>
        /\ ret.winner = "CREW_WIN"
        /\ ret.done
        /\ ret.team_reward = game_end_reward

\* a step in which the last job was fixed after the imposter had killed a
\* crew agent, all imposters still alive
C6_FixCompletesWithImpostersAlive ==
    /\ variant = "FourRoomEnv"
    /\ StepReturned
    /\ n_jobs > 0
    /\ LivingImposters = n_imposters
    /\ \E k \in DOMAIN step_log :
         /\ CompletingFix(k)
         /\ ~SabotagedAfter(k)
         /\ \E m \in DOMAIN step_log : step_log[m].kind = "KILL"

----------------------------------------------------------------------------
(* Jobs *)

\* this transition is a loop iteration of step in which the acting agent's
\* action of the given kind took effect on job j
JobActionApplied(kind, j) ==
    /\ pc = "acting"
    /\ agent_action_order # <<>>
    /\ last_act'.agent = Head(agent_action_order)
    /\ last_act'.action.kind = kind
    /\ last_act'.job_idx = j
    /\ last_act'.applied

\* this transition is a call of reset
ResetCalled == pc \in {"constructed", "ready"} /\ ret'.kind = "reset"

\* C7: the number of completed jobs is always between 0 and n_jobs; a Fix
\* changes a completed flag only from false to true, a Sabotage only from true
\* to false, and no other action changes any completed flag
C7_OnlyFixAndSabotageChangeJobs ==
    [][ /\ DOMAIN completed_jobs' = Jobs
        /\ Count(completed_jobs', Jobs) \in 0 .. n_jobs
        /\ ~ResetCalled =>
             \A j \in DOMAIN completed_jobs :
                /\ (~completed_jobs[j] /\ completed_jobs'[j])
                      => JobActionApplied("FIX", j)
                /\ (completed_jobs[j] /\ ~completed_jobs'[j])
                      => JobActionApplied("SABOTAGE", j)
      ]_vars

\* inside a step a Sabotage has just undone a job that a Fix of the same step
\* had completed
C7_SabotageAfterFix ==
    /\ pc = "acting"
    /\ last_act.action.kind = "SABOTAGE"
    /\ last_act.applied
    /\ ~completed_jobs[last_act.job_idx]
    /\ \E k \in DOMAIN step_log :
         step_log[k].kind = "FIX" /\ step_log[k].target = last_act.job_idx

----------------------------------------------------------------------------
(* reset *)

\* C8: after every reset exactly n_imposters agents are imposters and all the
\* others crew: the two sets are disjoint, their union is all n_agents agents,
\* and the imposter indices are pairwise distinct, shuffled or not
C8_RolesPartitionAgents ==
    pc # "constructed" =>
        LET imposters == {a \in Agents : imposter_mask[a]}
            crew == {a \in Agents : crew_mask[a]}
        IN  /\ Len(imposter_idxs) = n_imposters
            /\ \A k, m \in DOMAIN imposter_idxs :
                  k # m => imposter_idxs[k] # imposter_idxs[m]
            /\ Range(imposter_idxs) = imposters
            /\ Cardinality(imposters) = n_imposters
            /\ Cardinality(crew) = n_crew
            /\ imposters \cap crew = {}
            /\ imposters \cup crew = Agents
            /\ Range(crew_idxs) = crew
            /\ Len(crew_idxs) = n_crew
            /\ ~shuffle_imposter_index => imposters = 0 .. (n_imposters - 1)

\* a reset after an episode with a dead agent drew two shuffled imposter
\* indices, the larger one first
C8_ShuffledResetAfterEpisode ==
    /\ ret.kind = "reset"
    /\ ret.before.dead
    /\ shuffle_imposter_index
    /\ n_imposters = 2
    /\ imposter_idxs[1] > imposter_idxs[2]

\* C9: after every reset with n_jobs > 0 all job positions are pairwise
\* distinct traversable cells, so any cell, and hence any agent position,
\* coincides with at most one job
C9_JobCellsDistinct ==
    (pc # "constructed" /\ n_jobs > 0) =>
        /\ DOMAIN job_positions = Jobs
        /\ \A j, k \in Jobs : j # k => job_positions[j] # job_positions[k]
        /\ \A j \in Jobs : _is_valid_position(job_positions[j])
        /\ \A a \in Agents :
              Cardinality({j \in Jobs : job_positions[j] = agent_positions[a]}) <= 1

\* a reset after an episode with a completed job placed two jobs, one of them
\* under an agent
C9_TwoJobsPlaced ==
    /\ ret.kind = "reset"
    /\ ret.before.completed
    /\ n_jobs = 2
    /\ \E a \in Agents : _get_job_at_pos(agent_positions[a]) # None

\* C10: after reset, from any prior state (terminal, with dead agents,
\* completed jobs, pending votes, a running countdown), every agent is alive,
\* every job is incomplete, and in the tagging variant all vote tallies are 0,
\* all accusation-used flags false and the countdown timer 0
C10_ResetClearsEpisode ==
    ret.kind = "reset" =>
        /\ DOMAIN alive_agents = Agents
        /\ \A a \in Agents : alive_agents[a]
        /\ DOMAIN completed_jobs = Jobs
        /\ \A j \in Jobs : ~completed_jobs[j]
        /\ variant = "FourRoomEnvWithTagging" =>
              /\ \A a \in Agents : tag_counts[a] = 0
              /\ \A a \in Agents : ~used_tag_actions[a]
              /\ tag_reset_timer = 0

\* reset was called in the tagging variant on a terminal state with a dead
\* agent, a completed job, pending votes, used accusations and a running timer
C10_ResetFromDirtyState ==
    /\ variant = "FourRoomEnvWithTagging"
    /\ ret.kind = "reset"
    /\ ret.before.done
    /\ ret.before.dead
    /\ ret.before.completed
    /\ ret.before.votes
    /\ ret.before.used
    /\ ret.before.timer

\* C11: calling reset twice with the same seed yields identical observations
\* (roles, agent positions, job positions, alive flags, job flags), whatever
\* steps or resets happened in between
C11_SameSeedSameObservation ==
    (ret.kind = "reset" /\ ret.seed # None) =>
        /\ seed_obs[ret.seed] # Nothing
        /\ Observation = seed_obs[ret.seed]

\* reset was called with a seed used before, on an episode that had a dead
\* agent, a completed job and a moved agent, after the other seed had given
\* another observation
C11_SeedReusedAfterEpisode ==
    /\ ret.kind = "reset"
    /\ ret.seed # None
    /\ ret.again
    /\ ret.before.dead
    /\ ret.before.completed
    /\ \E s \in caller_seeds :
         seed_obs[s] # Nothing /\ seed_obs[s] # seed_obs[ret.seed]

----------------------------------------------------------------------------
(* Construction *)

\* the arguments are among those a FourRoomEnv must refuse
RefusedArguments ==
    \/ args.n_imposters < 1
    \/ args.n_crew < 1
    \/ args.n_jobs < 0
    \/ args.n_imposters >= args.n_crew

\* C12: constructing a FourRoomEnv fails (assertion error, no environment)
\* whenever n_imposters < 1, n_crew < 1, n_jobs < 0 or n_imposters >= n_crew,
\* and succeeds without clamping any parameter otherwise
C12_ConstructionValidates ==
    (variant = "FourRoomEnv" /\ pc # "new") =>
        IF RefusedArguments
        THEN /\ pc = "failed"
             /\ ret = [kind |-> "error", error |-> "AssertionError"]
             /\ alive_agents = <<>>
        ELSE /\ pc # "failed"
             /\ n_imposters = args.n_imposters
             /\ n_crew = args.n_crew
             /\ n_jobs = args.n_jobs

\* construction with as many imposters as crew, all else valid, has failed
C12_ParityRefused ==
    /\ variant = "FourRoomEnv"
    /\ pc = "failed"
    /\ args.n_imposters >= 1
    /\ args.n_imposters = args.n_crew
    /\ args.n_jobs >= 0

----------------------------------------------------------------------------
(* Contract violations of step *)

\* the last call of step raised an error
StepFailed == pc = "ready" /\ ret.kind = "error" /\ before_step # Nothing

\* C13: step fails whenever the action vector's length differs from the agent
\* count or an agent's action index lies outside 0 .. (size of that agent's own
\* action set) - 1, negative indices and indices legal only for the other role
\* included (a vector of wrong length never enters the loop: StepBegin)
C13_IllegalIndexFails ==
    ~index_legal => StepFailed

\* C14: a step call that fails on a wrong-length or out-of-range action vector
\* is never partially applied: positions, alive flags, job flags, vote
\* tallies, accusation flags and the countdown timer are as before the call,
\* also when the offending index belongs to an agent that acts late
C14_FailedStepChangesNothing ==
    StepFailed => Snapshot = before_step

----------------------------------------------------------------------------
(* The action resolver *)

\* this transition is the loop iteration of the agent whose turn it is
ActorTurn == pc = "acting" /\ agent_action_order # <<>>

\* the agent whose turn it is
Actor == Head(agent_action_order)

\* C15: if the acting agent is not alive when its turn comes, its action of
\* any kind (move, Kill, Fix, Sabotage, Accuse) is a no-op: no position, alive
\* flag, job flag, vote tally or accusation-used flag changes and no reward is
\* assigned because of it
C15_DeadActorNoOp ==
    [][ (ActorTurn /\ ~alive_agents[Actor]) =>
            UNCHANGED <<agent_positions, alive_agents, completed_jobs,
                        tag_counts, used_tag_actions, agent_rewards>>
      ]_vars

\* the cell lies on the 9x9 grid and is none of the wall cells
Traversable(cell) ==
    /\ cell[1] \in 0 .. 8
    /\ cell[2] \in 0 .. 8
    /\ cell \notin walls

\* the jobs on a cell
JobsOn(cell) == {j \in Jobs : job_positions[j] = cell}

\* the action of a living agent a is one of the expected no-ops
ExpectedNoOp(a, action) ==
    LET cell == agent_positions[a]
    IN  \/ /\ action.kind \in {"UP", "DOWN", "LEFT", "RIGHT"}
           /\ ~Traversable(move(action, cell))
        \/ /\ action.kind = "KILL"
           /\ ~\E v \in Agents :
                 alive_agents[v] /\ crew_mask[v] /\ agent_positions[v] = cell
        \/ /\ action.kind = "FIX"
           /\ \A j \in JobsOn(cell) : completed_jobs[j]
        \/ /\ action.kind = "SABOTAGE"
           /\ \A j \in JobsOn(cell) : ~completed_jobs[j]

\* C16: for a living agent each expected no-op (a move into a wall or off the
\* grid, a Kill with no living crew on the cell, a Fix with no job or a
\* completed job on the cell, a Sabotage with no job or an incomplete job on
\* the cell) raises no error, changes no state, and leaves the actor's base
\* step reward at the default time-step value
C16_ExpectedNoOpsAbsorbed ==
    [][ (ActorTurn /\ alive_agents[Actor] /\ last_act'.action.kind # "NONE"
            /\ ExpectedNoOp(Actor, last_act'.action)) =>
            /\ ret'.kind # "error"
            /\ pc' = "acting"
            /\ ~last_act'.applied
            /\ UNCHANGED <<agent_positions, alive_agents, completed_jobs,
                           tagging, agent_rewards, job_positions, roles>>
            /\ agent_rewards'[Actor] = time_step_reward
      ]_vars

\* Scenario D: a living crew agent has just issued Fix on a cell without a job
C16_FixWithoutJob ==
    /\ pc = "acting"
    /\ n_jobs > 0
    /\ last_act.action.kind = "FIX"
    /\ last_act.alive
    /\ crew_mask[last_act.agent]
    /\ JobsOn(agent_positions[last_act.agent]) = {}
    /\ ~last_act.applied
    /\ agent_rewards[last_act.agent] = time_step_reward

\* the neighbour of a cell at unit offset in the direction of a move
Neighbour(kind, cell) ==
    CASE kind = "UP" -> <<cell[1], cell[2] + 1>>
      [] kind = "DOWN" -> <<cell[1], cell[2] - 1>>
      [] kind = "LEFT" -> <<cell[1] - 1, cell[2]>>
      [] kind = "RIGHT" -> <<cell[1] + 1, cell[2]>>
      [] OTHER -> cell

\* a living agent performs a move action (Stay included) in this iteration
LivingActorMoves ==
    /\ ActorTurn
    /\ alive_agents[Actor]
    /\ last_act'.agent = Actor
    /\ last_act'.action.kind \in {"STAY", "UP", "DOWN", "LEFT", "RIGHT"}

\* C17: a move action by a living agent changes only that agent's position,
\* to the unit-offset neighbour when that cell is in bounds and not a wall and
\* not at all otherwise (Stay never moves); so in every reachable state every
\* agent stands on a traversable cell of the 9x9 grid
C17_MovesStayOnTraversableCells ==
    /\ [][ LivingActorMoves =>
             LET kind == last_act'.action.kind
                 target == Neighbour(kind, agent_positions[Actor])
             IN  /\ agent_positions'[Actor] =
                        IF Traversable(target) THEN target
                        ELSE agent_positions[Actor]
                 /\ kind = "STAY" => agent_positions'[Actor] = agent_positions[Actor]
                 /\ \A a \in Agents \ {Actor} :
                        agent_positions'[a] = agent_positions[a]
                 /\ UNCHANGED <<alive_agents, completed_jobs, tagging,
                                agent_rewards, job_positions, roles>>
       ]_vars
    /\ [](\A a \in DOMAIN agent_positions : Traversable(agent_positions[a]))

\* one agent has left the start cell and a living agent has just been held
\* back by a wall or by the edge of the grid
C17_MovedThenBlocked ==
    /\ pc = "acting"
    /\ last_act.alive
    /\ last_act.action.kind \in {"UP", "LEFT"}
    /\ ~last_act.applied
    /\ ~Traversable(Neighbour(last_act.action.kind,
                              agent_positions[last_act.agent]))
    /\ \E a \in Agents : agent_positions[a] \notin AgentCells

\* the validity check has answered the question in query
Answered == query # Nothing /\ query.result # "pending"

\* C18: for every integer pair (x, y), negative and too-large coordinates
\* included, the validity check returns true exactly when 0 <= x < 9,
\* 0 <= y < 9 and (x, y) is not one of the 13 wall cells, and it never raises;
\* the cells it accepts are exactly the cells reset samples positions from
C18_ValidityCheckTotal ==
    Answered =>
        /\ query.result \in {"True", "False"}
        /\ (query.result = "True") <=>
               /\ 0 <= query.pos[1] /\ query.pos[1] < 9
               /\ 0 <= query.pos[2] /\ query.pos[2] < 9
               /\ query.pos \notin walls
        /\ Cardinality(walls) = 13
        /\ (query.result = "True") <=> (query.pos \in Range(valid_positions))
        /\ AgentCells \cup JobCells \subseteq Range(valid_positions)

\* the check has refused a cell left of the grid whose row, read from the
\* end of the array, would be free
C18_NegativeCoordinateRefused ==
    /\ Answered
    /\ query.pos[1] < 0
    /\ query.pos[2] \in 0 .. 8
    /\ <<query.pos[1] + 9, query.pos[2]>> \notin walls
    /\ query.result = "False"

\* reset has returned and the episode it started is not over
InEpisode == pc \in {"ready", "acting"}

\* the action kinds in an agent's action set
KindsOf(actions) == {actions[k].kind : k \in DOMAIN actions}

\* C19: after reset each agent's legal action set is determined by its role
\* and stays fixed for the episode: a crew agent's set is exactly {Stay, Up,
\* Down, Left, Right, Fix}, an imposter's exactly {Stay, Up, Down, Left, Right,
\* Sabotage, Kill}; so no accepted action index makes a crew agent perform
\* Kill or Sabotage or an imposter perform Fix
C19_ActionSetsByRole ==
    [][ /\ InEpisode' =>
            \A a \in Agents :
               /\ Len(agent_action_map'[a]) = Cardinality(KindsOf(agent_action_map'[a]))
               /\ crew_mask'[a] => KindsOf(agent_action_map'[a]) =
                     {"STAY", "UP", "DOWN", "LEFT", "RIGHT", "FIX"}
               /\ imposter_mask'[a] => KindsOf(agent_action_map'[a]) =
                     {"STAY", "UP", "DOWN", "LEFT", "RIGHT", "SABOTAGE", "KILL"}
        /\ (InEpisode /\ ~ResetCalled) => UNCHANGED <<agent_action_map, roles>>
        /\ (ActorTurn /\ last_act'.agent = Actor) =>
               /\ crew_mask[Actor] =>
                     last_act'.action.kind \notin {"KILL", "SABOTAGE"}
               /\ imposter_mask[Actor] => last_act'.action.kind # "FIX"
      ]_vars

\* an imposter has killed and a crew agent has then completed a job
C19_EachRoleUsedItsOwnAction ==
    /\ pc = "acting"
    /\ \E a \in Agents : ~alive_agents[a]
    /\ crew_mask[last_act.agent]
    /\ last_act.action.kind = "FIX"
    /\ last_act.applied

\* the base action set of agent a's role
RoleActions(a) == IF crew_mask[a] THEN CREW_ACTIONS ELSE IMPOSTER_ACTIONS

\* the targets of the accuse actions in an action set, in the order of the set
AccusedBy(actions) ==
    {actions[k].tag : k \in {i \in DOMAIN actions : actions[i].kind = "TAG"}}

\* C20: in the tagging extension, after reset every agent's action set is its
\* role's base set followed by exactly n_agents - 1 accuse actions, one for
\* each other agent (alive or not) and none for the agent itself, so no agent
\* ever accuses itself
C20_AccuseActionsForOthers ==
    [][ /\ (variant = "FourRoomEnvWithTagging" /\ InEpisode') =>
            \A a \in Agents :
               LET actions == agent_action_map'[a]
                   base == IF crew_mask'[a] THEN CREW_ACTIONS ELSE IMPOSTER_ACTIONS
                   accuse == (Len(base) + 1) .. Len(actions)
               IN  /\ Len(actions) = Len(base) + n_agents - 1
                   /\ SubSeq(actions, 1, Len(base)) = base
                   /\ \A k \in accuse : actions[k].kind = "TAG"
                   /\ {actions[k].tag : k \in accuse} = Agents \ {a}
        /\ (ActorTurn /\ last_act'.agent = Actor /\ last_act'.action.kind = "TAG")
              => last_act'.action.tag \in Agents \ {Actor}
      ]_vars

\* an agent has just accused an agent that is dead, and its own action set
\* still holds an accuse action for every other agent
C20_AccusedTheDead ==
    /\ variant = "FourRoomEnvWithTagging"
    /\ pc = "acting"
    /\ last_act.action.kind = "TAG"
    /\ ~alive_agents[last_act.action.tag]
    /\ AccusedBy(agent_action_map[last_act.agent]) = Agents \ {last_act.agent}
    /\ SubSeq(agent_action_map[last_act.agent], 1, Len(RoleActions(last_act.agent)))
          = RoleActions(last_act.agent)

\* this transition is a loop iteration of step in which the actor accuses
AccuseResolved ==
    /\ ActorTurn
    /\ last_act'.agent = Actor
    /\ last_act'.action.kind = "TAG"

\* C21: an Accuse succeeds exactly when the actor's accusation-used flag is
\* false and the target is alive when the action is resolved; on success the
\* target's tally grows by exactly 1 and the actor's flag becomes true; on
\* failure no tally and no flag changes; in neither case does the action
\* change any agent's reward
C21_AccuseSucceedsWhenUnusedAndTargetAlive ==
    [][ AccuseResolved =>
          LET target == last_act'.action.tag
              succeeds == ~used_tag_actions[Actor] /\ alive_agents[target]
          IN  /\ last_act'.applied <=> succeeds
              /\ succeeds =>
                    /\ tag_counts' = [tag_counts EXCEPT ![target] = tag_counts[target] + 1]
                    /\ used_tag_actions' = [used_tag_actions EXCEPT ![Actor] = TRUE]
              /\ ~succeeds => UNCHANGED <<tag_counts, used_tag_actions>>
              /\ UNCHANGED <<agent_rewards, tag_reset_timer, alive_agents,
                             agent_positions, completed_jobs>>
      ]_vars

\* an agent whose accusation is spent has just accused a living agent again,
\* to no effect, in an episode in which an agent has died
C21_SpentAccusationFails ==
    /\ pc = "acting"
    /\ last_act.action.kind = "TAG"
    /\ ~last_act.applied
    /\ used_tag_actions[last_act.agent]
    /\ alive_agents[last_act.action.tag]
    /\ \E a \in Agents : ~alive_agents[a]

\* C22 as stated: between one reset and the next no agent performs more than
\* one successful Accuse, however many steps and vote resolutions occur
C22_SingleAccusationPerEpisode ==
    \A a \in DOMAIN tags_made : tags_made[a].episode <= 1

\* C22: between one vote resolution (or reset) and the next no agent performs
\* more than one successful Accuse, and an agent's accusation-used flag is set
\* exactly when it has accused successfully since the last resolution
C22_SingleAccusationPerRound ==
    \A a \in DOMAIN tags_made :
        /\ tags_made[a].round <= 1
        /\ variant = "FourRoomEnvWithTagging" =>
              (used_tag_actions[a] <=> tags_made[a].round = 1)

\* an agent has accused successfully in two rounds of one episode
C22_AccusedInTwoRounds ==
    \E a \in DOMAIN tags_made :
        /\ tags_made[a].episode = 2
        /\ tags_made[a].round = 1
        /\ used_tag_actions[a]

\* this transition is the end of a step of the tagging extension in which the
\* countdown reaches the interval, so that a vote is resolved
VoteResolved ==
    /\ variant = "FourRoomEnvWithTagging"
    /\ pc = "acting"
    /\ agent_action_order = <<>>
    /\ pc' = "ready"
    /\ tag_reset_timer + 1 >= tag_reset_interval

\* the vote tally of agent a at a resolution: a dead agent holds no votes
Tally(a) == IF alive_agents[a] THEN tag_counts[a] ELSE 0

\* the agent with the maximum tally, the lowest index on ties
TopVoted ==
    CHOOSE a \in Agents :
        /\ \A b \in Agents : Tally(b) <= Tally(a)
        /\ \A b \in Agents : Tally(b) = Tally(a) => a <= b

\* ceil(number of living agents / 2)
Quorum ==
    CHOOSE q \in 0 .. n_agents :
        /\ 2 * q >= LivingImposters + LivingCrew
        /\ 2 * (q - 1) < LivingImposters + LivingCrew

\* C23: at a vote resolution, with quorum = ceil(agents alive after this
\* step's actions / 2), the agent with the maximum tally (lowest index on
\* ties) is marked not-alive exactly when its tally is at least the quorum; no
\* other agent's alive flag changes, at most one agent is removed, and the
\* removed agent was alive before the resolution
C23_VoteRemovesTopVotedAtQuorum ==
    [][ VoteResolved =>
          /\ ret'.vote.quorum = Quorum
          /\ Tally(TopVoted) >= Quorum =>
                /\ ~alive_agents'[TopVoted]
                /\ alive_agents[TopVoted]
          /\ Tally(TopVoted) < Quorum => alive_agents' = alive_agents
          /\ \A a \in Agents \ {TopVoted} : alive_agents'[a] = alive_agents[a]
      ]_vars

\* this transition is a vote resolution at which the quorum is met
VoteRemoves == VoteResolved /\ Tally(TopVoted) >= Quorum

\* C24: when a vote resolution removes an agent, the adjustment of the team
\* reward (the reward crew receive un-negated) is +vote_reward if the removed
\* agent is an imposter and -vote_reward if it is a crew member
C24_VoteRewardFavoursCrewWhenImposterRemoved ==
    [][ VoteRemoves =>
          ret'.team_reward - ret'.win_reward =
              IF imposter_mask[TopVoted] THEN vote_reward
              ELSE (0 - 1) * vote_reward
      ]_vars

\* this transition is the end of a step of the tagging extension in which the
\* countdown stays below the interval
VoteNotDue ==
    /\ variant = "FourRoomEnvWithTagging"
    /\ pc = "acting"
    /\ agent_action_order = <<>>
    /\ pc' = "ready"
    /\ tag_reset_timer + 1 < tag_reset_interval

\* C25: every vote resolution, quorum met or not, ends with all tallies 0, all
\* accusation-used flags false and the countdown timer 0; a step without a
\* resolution resets neither the tallies of living agents nor any flag
C25_ResolutionResetsTaggingState ==
    [][ /\ VoteResolved =>
              /\ \A a \in Agents : tag_counts'[a] = 0 /\ ~used_tag_actions'[a]
              /\ tag_reset_timer' = 0
        /\ VoteNotDue =>
              /\ \A a \in Agents : alive_agents[a] => tag_counts'[a] = tag_counts[a]
              /\ used_tag_actions' = used_tag_actions
              /\ tag_reset_timer' = tag_reset_timer + 1
      ]_vars

\* after a step without a resolution, in which an accusation was made, the
\* next step has resolved the vote below the quorum and cleared the tally
C25_ResolvedBelowQuorum ==
    /\ pc = "ready"
    /\ ret.kind = "step"
    /\ total_time_steps = 2
    /\ tag_reset_interval = 2
    /\ ret.vote.resolved
    /\ ~ret.vote.kicked
    /\ ret.vote.highest_vote > 0
    /\ \A a \in Agents : tag_counts[a] = 0 /\ ~used_tag_actions[a]
    /\ tag_reset_timer = 0

\* C26: after every step of the tagging extension every not-alive agent has
\* vote tally 0 (an agent killed in that step after it was accused included),
\* so an agent that is already not-alive is never the one selected and
\* removed by a vote resolution
C26_DeadAgentsHoldNoVotes ==
    /\ []((StepReturned /\ variant = "FourRoomEnvWithTagging") =>
             \A a \in Agents : ~alive_agents[a] => tag_counts[a] = 0)
    /\ [][ VoteRemoves => alive_agents[TopVoted] ]_vars

\* the agents whose accusation of agent x succeeded in the step that ran last
AccusersOf(x) ==
    {step_log[k].agent :
        k \in {i \in DOMAIN step_log :
                  step_log[i].kind = "TAG" /\ step_log[i].target = x}}

\* Scenario C: the first step of an episode with countdown interval 1 and four
\* agents has returned, and in it two agents accused agent x
ScenarioC(x) ==
    /\ variant = "FourRoomEnvWithTagging"
    /\ tag_reset_interval = 1
    /\ n_agents = 4
    /\ StepReturned
    /\ total_time_steps = 1
    /\ Cardinality(AccusersOf(x)) >= 2

\* x is not alive and all tallies and accusation-used flags are zero
RemovedAndReset(x) ==
    /\ ~alive_agents[x]
    /\ ret.vote.quorum = 2
    /\ \A a \in Agents : tag_counts[a] = 0 /\ ~used_tag_actions[a]

\* C27 as stated: when two agents with unspent accusations accuse the same
\* living agent X in one step (interval 1, 4 living agents), X's tally reaches
\* 2 = quorum, X is not alive at the end of the step, and all tallies and
\* accusation-used flags are zero in the returned state
C27_ScenarioC_AsStated ==
    \A x \in Agents : ScenarioC(x) => RemovedAndReset(x)

\* C27: the same, when no agent with a lower index than X is also accused by
\* two agents in that step
C27_ScenarioC ==
    \A x \in Agents :
        (ScenarioC(x) /\ \A y \in 0 .. (x - 1) : Cardinality(AccusersOf(y)) < 2)
            => RemovedAndReset(x)

\* two agents accused X, two accused an agent with a higher index, and the
\* vote has removed X
C27_TieGoesToLowerIndex ==
    \E x \in Agents :
        /\ ScenarioC(x)
        /\ \E y \in Agents : y > x /\ Cardinality(AccusersOf(y)) = 2
        /\ ret.vote.kicked
        /\ ret.vote.highest_vote_idx = x
        /\ ret.vote.highest_vote = 2
        /\ RemovedAndReset(x)

\* this transition is the end of step: win check and reward merge
StepReturns == pc = "acting" /\ agent_action_order = <<>> /\ pc' = "ready"

\* C28: in the reward merge of every step the combined reward (base reward
\* plus team reward) is negated for every living agent whose role is imposter
\* and for no living crew agent, whatever role assignment reset has produced
C28_SignFlipFollowsRole ==
    [][ StepReturns =>
          \A a \in Agents :
             alive_agents'[a] =>
                agent_rewards'[a] =
                    IF imposter_mask[a]
                    THEN (0 - 1) * (agent_rewards[a] + ret'.team_reward)
                    ELSE agent_rewards[a] + ret'.team_reward
      ]_vars

\* C29: in the reward vector returned by every step, every agent that is not
\* alive at the end of the step (killed or voted out, in this step or earlier,
\* crew or imposter) has reward exactly dead_penalty, whatever its action
\* reward, the team reward and the sign flip
C29_DeadAgentsGetDeadPenalty ==
    StepReturned =>
        \A a \in Agents : ~alive_agents[a] => agent_rewards[a] = dead_penalty

\* a step has returned a non-zero team reward, and the crew agent killed in it,
\* whose step reward had been set to kill_reward, holds the dead penalty
C29_VictimHoldsPenalty ==
    /\ StepReturned
    /\ ret.team_reward # 0
    /\ kill_reward + ret.team_reward # dead_penalty
    /\ \E k \in DOMAIN step_log :
          /\ step_log[k].kind = "KILL"
          /\ ~alive_agents[step_log[k].target]
          /\ agent_rewards[step_log[k].target] = dead_penalty

\* the agents with a successful Kill, Fix or Sabotage in the step so far, and
\* the victims of its kills
RewardedInStep ==
    {step_log[k].agent :
        k \in {i \in DOMAIN step_log :
                  step_log[i].kind \in {"KILL", "FIX", "SABOTAGE"}}}
    \cup {step_log[k].target :
             k \in {i \in DOMAIN step_log : step_log[i].kind = "KILL"}}

\* agent_rewards with the entries of the agents in S set to r
RewardsWith(S, r) == [a \in Agents |-> IF a \in S THEN r ELSE agent_rewards[a]]

C31_WinStateMonotone ==
    [][ (StepReturns /\ first_done # "IN_PROGRESS") =>
           ret'.done /\ ret'.winner = first_done ]_vars

\* the components the spec gives the observation of this variant
ExpectedObservation ==
    <<"agent_positions", "alive_agents">>
        \o (IF n_jobs > 0 THEN <<"job_positions", "completed_jobs">> ELSE <<>>)
        \o (IF variant = "FourRoomEnvWithTagging"
            THEN <<"used_tag_actions", "tag_counts", "time_left">>
            ELSE <<>>)

C33_RolesJobsActionSetsFixedInEpisode ==
    [][ ~ResetCalled => UNCHANGED <<roles, job_positions, agent_action_map>> ]_vars

\* a step has returned in an episode where an agent was killed and a job is
\* completed
C33_StepChangedAliveAndJobs ==
    /\ StepReturned
    /\ \E a \in Agents : ~alive_agents[a]
    /\ \E j \in Jobs : completed_jobs[j]

\* the loop of step is entered
LoopEntered == pc = "ready" /\ pc' = "acting"

\* the agent whose turn it is was alive when step was called and is dead now
KilledBeforeTurn ==
    ActorTurn /\ before_step.alive_agents[Actor] /\ ~alive_agents[Actor]

\* C34: in one step every agent's action is resolved exactly once, one agent
\* at a time, in ascending index order when the order is not randomised and in
\* a permutation of the agents otherwise; the action of an agent killed before
\* its turn is ignored, and a kill leaves the victim's earlier move and Fix in
\* place
C34_OneTurnEachInOrder ==
    [][ /\ LoopEntered =>
             /\ Len(agent_action_order') = n_agents
             /\ Range(agent_action_order') = Agents
             /\ ~is_action_order_random =>
                   \A k \in 1 .. n_agents : agent_action_order'[k] = k - 1
        /\ ActorTurn =>
             /\ last_act'.agent = Actor
             /\ ret'.kind # "error" =>
                   agent_action_order' = Tail(agent_action_order)
        /\ KilledBeforeTurn =>
             UNCHANGED <<agent_positions, alive_agents, completed_jobs,
                         tag_counts, used_tag_actions, agent_rewards>>
        /\ (ActorTurn /\ last_act'.action.kind = "KILL" /\ last_act'.applied) =>
             UNCHANGED <<agent_positions, completed_jobs>>
      ]_vars

\* C35: in the tagging extension with interval >= 1 the countdown timer grows
\* by 1 with every step and a vote is resolved exactly on every interval-th
\* step after a reset, which sets the timer back to 0; after every step
\* 0 <= timer < interval, and the countdown reported in the observation,
\* interval - timer, lies between 1 and interval
C35_CountdownCycles ==
    /\ [][ /\ (VoteResolved \/ VoteNotDue) =>
                /\ (ret'.vote.resolved <=> tag_reset_timer + 1 = tag_reset_interval)
                /\ tag_reset_timer' = (tag_reset_timer + 1) % tag_reset_interval
           /\ ResetCalled => tag_reset_timer' = 0
           /\ ~(StepReturns \/ ResetCalled) => UNCHANGED tag_reset_timer
          ]_vars
    /\ []((variant = "FourRoomEnvWithTagging" /\ tag_reset_interval >= 1) =>
            /\ tag_reset_timer \in 0 .. (tag_reset_interval - 1)
            /\ (ret.kind \in {"reset", "step"} =>
                  /\ ret.time_left = tag_reset_interval - tag_reset_timer
                  /\ ret.time_left \in 1 .. tag_reset_interval))

\* with interval 2 the second step after the reset has resolved a vote and
\* reports a full countdown
C35_ResolvedOnSecondStep ==
    /\ StepReturned
    /\ variant = "FourRoomEnvWithTagging"
    /\ tag_reset_interval = 2
    /\ total_time_steps = 2
    /\ ret.vote.resolved
    /\ tag_reset_timer = 0
    /\ ret.time_left = 2

\* C36: within an episode no alive flag goes from not-alive to alive, so
\* that the numbers of living crew and of living imposters never grow from
\* one step to the next; only reset revives agents
C36_NoRevivalInEpisode ==
    [][ (InEpisode /\ ~ResetCalled) =>
            /\ \A a \in Agents : ~alive_agents[a] => ~alive_agents'[a]
            /\ LivingCrew' <= LivingCrew
            /\ LivingImposters' <= LivingImposters
      ]_vars

\* a step without a kill and without a removal by vote has returned, and an
\* agent that died in an earlier step of the episode is still not alive
C36_DeadInLaterStep ==
    /\ StepReturned
    /\ ~ret.vote.kicked
    /\ \A k \in DOMAIN step_log : step_log[k].kind # "KILL"
    /\ \E a \in Agents : ~alive_agents[a]

\* the sum of the vote tallies: one pair (agent, v) for each vote the agent holds
TallySum ==
    Cardinality({p \in Agents \X (1 .. (n_agents + 1)) : p[2] <= tag_counts[p[1]]})

\* the number of agents whose accusation-used flag is set
SpentAccusations == Count(used_tag_actions, Agents)

\* C37: in every state of an episode of the tagging extension the sum of the
\* vote tallies is at most the number of agents whose accusation-used flag is
\* set, every tally lies between 0 and n_agents - 1, and no agent holds a
\* vote cast by itself
C37_TalliesBoundedByAccusations ==
    (variant = "FourRoomEnvWithTagging" /\ InEpisode) =>
        /\ TallySum <= SpentAccusations
        /\ \A a \in Agents : tag_counts[a] \in 0 .. (n_agents - 1)
        /\ \A k \in DOMAIN step_log :
              step_log[k].kind = "TAG" => step_log[k].agent # step_log[k].target

\* a step has returned in which every other agent accused the same agent
C37_AllOthersAccusedOne ==
    /\ variant = "FourRoomEnvWithTagging"
    /\ StepReturned
    /\ \E a \in Agents : tag_counts[a] = n_agents - 1
    /\ TallySum = SpentAccusations

\* C38: when the imposter indices are not shuffled, every reset makes the
\* agents 0 .. n_imposters - 1 the imposters, so that the sign flip over the
\* first n_imposters indices in the reward merge of every step negates the
\* combined reward of exactly the agents whose role is imposter
C38_UnshuffledFlipMatchesRoles ==
    /\ []((~shuffle_imposter_index /\ pc # "constructed") =>
            /\ {a \in Agents : imposter_mask[a]} = 0 .. (n_imposters - 1)
            /\ Range(imposter_idxs) = 0 .. (n_imposters - 1))
    /\ [][ (StepReturns /\ ~shuffle_imposter_index) =>
              \A a \in Agents :
                 alive_agents'[a] =>
                    agent_rewards'[a] =
                        IF imposter_mask[a]
                        THEN (0 - 1) * (agent_rewards[a] + ret'.team_reward)
                        ELSE agent_rewards[a] + ret'.team_reward
          ]_vars

\* with unshuffled roles a step has returned in which an imposter killed and
\* a crew agent completed a job: the killer's reward is negated, the fixer's
\* is not
C38_KillerNegatedFixerNot ==
    /\ StepReturned
    /\ ~shuffle_imposter_index
    /\ \E k, m \in DOMAIN step_log :
          LET killer == step_log[k].agent
              fixer == step_log[m].agent
          IN  /\ step_log[k].kind = "KILL"
              /\ step_log[m].kind = "FIX"
              /\ alive_agents[fixer]
              /\ killer < n_imposters
              /\ fixer >= n_imposters
              /\ agent_rewards[killer] = (0 - 1) * (kill_reward + ret.team_reward)
              /\ agent_rewards[fixer] = complete_job_reward + ret.team_reward
              /\ agent_rewards[killer] # 0
              /\ agent_rewards[fixer] # 0

\* C39: a step of ImposterTrainingGround returns done with team reward
\* +game_end_reward exactly when n_jobs # 0 and all jobs are completed,
\* otherwise done with -game_end_reward exactly when no crew agent is alive,
\* otherwise not done with team reward 0; with n_jobs = 0 an episode ends only
\* when every crew agent has been killed, and parity between the living crew
\* and the imposter does not end it
C39_TrainingGroundWinRule ==
    (variant = "ImposterTrainingGround" /\ StepReturned) =>
        /\ IF n_jobs # 0 /\ AllJobsCompleted
           THEN ret.done /\ ret.team_reward = game_end_reward
           ELSE IF LivingCrew = 0
           THEN ret.done /\ ret.team_reward = (0 - 1) * game_end_reward
           ELSE ~ret.done /\ ret.team_reward = 0
        /\ (n_jobs = 0 /\ ret.done) => LivingCrew = 0
        /\ (LivingCrew > 0 /\ ~(n_jobs # 0 /\ AllJobsCompleted)) => ~ret.done

\* without jobs the imposter of the training ground has killed one of the two
\* crew agents: parity, and the step has returned without ending the episode
C39_ParityGoesOn ==
    /\ variant = "ImposterTrainingGround"
    /\ n_jobs = 0
    /\ StepReturned
    /\ LivingCrew = 1
    /\ LivingImposters = 1
    /\ ~ret.done
    /\ ret.team_reward = 0

\* C40: every environment that can be constructed, of any class,
\* ImposterTrainingGround included, has at least one imposter, strictly more
\* crew than imposters and a non-negative job count; construction with
\* arguments that violate this fails
C40_EveryConstructedEnvironmentValid ==
    pc # "new" =>
        /\ RefusedArguments => pc = "failed"
        /\ pc # "failed" =>
              /\ n_imposters >= 1
              /\ n_crew > n_imposters
              /\ n_jobs >= 0

====
